---- MODULE Spec2Model ----
(***************************************************************************)
(* slurp: scraper -> Kafka topic -> worker pipeline                        *)
(* (download -> acknowledge -> normalize -> persist -> generate -> persist) *)
(***************************************************************************)
EXTENDS Integers, Sequences, FiniteSets, TLC

(* ---------------------------------------------------------------------- *)
(* Bounds                                                                  *)
(* ---------------------------------------------------------------------- *)
MaxLog == 2
MaxBatch == 2
MaxRuns == 2
MaxQuestions == 2
MaxWords == 4001
MaxLevels == 5
MaxOps == 3
MaxLimit == 2
MaxNodes == 2
MaxSkip == 2
MaxPages == 3
MaxPageBatch == 3
MaxMonths == 2
MaxSpace == 2
MaxStream == 3
MaxChain == 2

(* ---------------------------------------------------------------------- *)
(* Values                                                                  *)
(* ---------------------------------------------------------------------- *)
None == [none |-> TRUE]

\* domain/models.py: Task. A temperature is counted in tenths (7 is 0.7).
Task(title, url, downloader, key, metadata, language, difficulty, temperature) ==
    [title |-> title, url |-> url, downloader |-> downloader,
     idempotency_key |-> key, metadata |-> metadata, language |-> language,
     difficulty |-> difficulty, temperature |-> temperature]

\* producers/confluence.py: the metadata of a task, {"links": page["_links"]}
Links(webui) == [links |-> [webui |-> webui]]

\* tasks the scraper processes may submit
TaskSet ==
    { Task("A", "p1", "confluence", "k1", Links("/p1"), "en", "EASY", 2),
      Task("B", "p3", "confluence", "k2", Links("/p3"), "de", "MIXED", 7),
      Task("E", "p1", "other", "k5", Links("/p1"), "en", "EASY", 2) }

\* domain/models.py: TaskResult
TaskResult(title, url, status_code, headers, content, hash, language, difficulty, temperature) ==
    [title |-> title, url |-> url, status_code |-> status_code,
     headers |-> headers, content |-> content, hash |-> hash, language |-> language,
     difficulty |-> difficulty, temperature |-> temperature]

\* an HTML body is a sequence of nodes [tag, items]: the items of a p, script
\* or style node and of a text node are its words, the items of an ol or ul
\* node are its li, each with the words of its own text and the lists nested
\* in it
Node(tag, items) == [tag |-> tag, items |-> items]
Text(words) == Node("#text", words)
Li(text, lists) == [text |-> text, lists |-> lists]
Item(word) == Li(<< word >>, << >>)

\* response headers
Json == [content_type |-> "application/json"]
Html == [content_type |-> "text/html"]

\* what the wiki answers for get_page_by_id(url): the source version of each
\* page. page: the response's JSON is not empty; view: it has a
\* body.view.value; body: that value, or the text of a response that is not ok
Remote(url) ==
    CASE url = "p1" -> [ok |-> TRUE, status_code |-> 200, headers |-> Json, page |-> TRUE,
                        view |-> TRUE,
                        body |-> << Node("p", <<"intro">>), Node("ol", << Item("a"), Item("b") >>) >>]
      [] url = "p2" -> [ok |-> TRUE, status_code |-> 200, headers |-> Json, page |-> TRUE,
                        view |-> TRUE,
                        body |-> << Node("script", <<"x">>), Node("ul", << Item("c") >>) >>]
      [] url = "p3" -> [ok |-> FALSE, status_code |-> 404, headers |-> Html, page |-> FALSE,
                        view |-> FALSE,
                        body |-> << Node("p", <<"missing">>) >>]
      [] url = "p4" -> [ok |-> TRUE, status_code |-> 200, headers |-> Json, page |-> FALSE,
                        view |-> FALSE, body |-> << >>]
      [] url = "p5" -> [ok |-> TRUE, status_code |-> 200, headers |-> Json, page |-> TRUE,
                        view |-> FALSE, body |-> << >>]
      [] OTHER      -> [ok |-> TRUE, status_code |-> 200, headers |-> Json, page |-> TRUE,
                        view |-> TRUE, body |-> << >>]

\* seeds of the interpreter's string hashing, one drawn per process
HashSeeds == {1, 2}

(* ---------------------------------------------------------------------- *)
(* Pure functions                                                          *)
(* ---------------------------------------------------------------------- *)
\* the built-in hash(): a function of the payload and of the process's seed
PyHash(payload, seed) == << seed, payload >>

\* hash.py: strhash
strhash(payload, seed) == PyHash(payload, seed)

\* the text under a node, li.text(deep=True): every word below it in
\* document order
RECURSIVE NodesText(_)
RECURSIVE LisText(_)
NodeDeepText(node) ==
    IF node.tag \in {"ol", "ul"} THEN LisText(node.items) ELSE node.items

NodesText(nodes) ==
    IF nodes = << >> THEN << >>
    ELSE NodeDeepText(Head(nodes)) \o NodesText(Tail(nodes))

LiDeepText(li) == li.text \o NodesText(li.lists)

LisText(lis) ==
    IF lis = << >> THEN << >>
    ELSE LiDeepText(Head(lis)) \o LisText(Tail(lis))

\* list.css("li"): every li below a list, those of nested lists included, in
\* document order
RECURSIVE DescendantLis(_)
RECURSIVE NodesLis(_)
DescendantLis(lis) ==
    IF lis = << >> THEN << >>
    ELSE << Head(lis) >> \o NodesLis(Head(lis).lists) \o DescendantLis(Tail(lis))

NodesLis(nodes) ==
    IF nodes = << >> THEN << >>
    ELSE (IF Head(nodes).tag \in {"ol", "ul"}
          THEN DescendantLis(Head(nodes).items) ELSE << >>)
         \o NodesLis(Tail(nodes))

\* " ".join(f"{i + 1}. {item}" ...) over the texts of the lis
RECURSIVE Numbered(_, _)
Numbered(lis, i) ==
    IF i > Len(lis) THEN << >>
    ELSE << ToString(i) \o "." >> \o LiDeepText(lis[i]) \o Numbered(lis, i + 1)

\* "*" stands for the bullet mark the parser puts before each item
RECURSIVE Bulleted(_, _)
Bulleted(lis, i) ==
    IF i > Len(lis) THEN << >>
    ELSE << "*" >> \o LiDeepText(lis[i]) \o Bulleted(lis, i + 1)

\* html_parser.py: parse, lines 43-46: every ol of the document, outermost
\* first, is replaced by the numbered texts of all li below it; an ol below
\* an ol leaves the document with the outer one
RECURSIVE ReplaceOl(_)
ReplaceOl(nodes) ==
    IF nodes = << >> THEN << >>
    ELSE LET n == Head(nodes) IN
         << IF n.tag = "ol"
            THEN Text(Numbered(DescendantLis(n.items), 1))
            ELSE IF n.tag = "ul"
            THEN Node("ul", [i \in 1..Len(n.items) |->
                        Li(n.items[i].text, ReplaceOl(n.items[i].lists))])
            ELSE n >>
         \o ReplaceOl(Tail(nodes))

\* html_parser.py: parse, lines 49-52: the same for every ul, with bullets
RECURSIVE ReplaceUl(_)
ReplaceUl(nodes) ==
    IF nodes = << >> THEN << >>
    ELSE LET n == Head(nodes) IN
         << IF n.tag = "ul"
            THEN Text(Bulleted(DescendantLis(n.items), 1))
            ELSE n >>
         \o ReplaceUl(Tail(nodes))

\* html_parser.py: parse, lines 39-40
Decompose(nodes) == SelectSeq(nodes, LAMBDA n : n.tag \notin {"script", "style"})

\* html_parser.py: HTMLParser.parse; the result is the sequence of words of
\* the whitespace-collapsed text
parse(html) ==
    IF html = << >> THEN << >>
    ELSE NodesText(ReplaceUl(ReplaceOl(Decompose(html))))

\* variant of HTMLParser: language, difficulty and temperature are not handed
\* to the new TaskResult, which takes the defaults of the dataclass
HTMLParser_Defaults(r) ==
    TaskResult(r.title, r.url, r.status_code, r.headers, parse(r.content),
               r.hash, "de", "MIXED", 7)

\* variant of HTMLParser: the hash is taken anew, from the text
HTMLParser_Rehash(r) ==
    TaskResult(r.title, r.url, r.status_code, r.headers, parse(r.content),
               strhash(parse(r.content), 1), r.language, r.difficulty,
               r.temperature)

\* html_parser.py: HTMLParser.__call__
HTMLParser(r) ==
    TaskResult(r.title, r.url, r.status_code, r.headers, parse(r.content),
               r.hash, r.language, r.difficulty, r.temperature)

\* downloader/confluence.py: line 63, page.get("body", {}).get("view", {})
\* .get("value", "")
body_html(res) == IF res.view THEN res.body ELSE << >>

\* variant of downloader: a response that is not ok is dropped
downloader_DropNotOk(t, seed) ==
    IF t.downloader # "confluence" THEN None
    ELSE LET res == Remote(t.url) IN
         IF ~res.ok \/ ~res.page THEN None
         ELSE TaskResult(t.title, t.url, res.status_code, res.headers,
                         body_html(res), strhash(body_html(res), seed),
                         t.language, t.difficulty, t.temperature)

\* downloader/confluence.py: ConfluenceDownloader.__call__
downloader(t, seed) ==
    IF t.downloader # "confluence" THEN None
    ELSE LET res == Remote(t.url) IN
         IF ~res.ok
         THEN TaskResult(t.title, t.url, res.status_code, res.headers, res.body,
                         strhash(res.body, seed), t.language, t.difficulty,
                         t.temperature)
         ELSE IF ~res.page THEN None
         ELSE TaskResult(t.title, t.url, res.status_code, res.headers,
                         body_html(res), strhash(body_html(res), seed),
                         t.language, t.difficulty, t.temperature)

\* orm_models.py: TaskResultORM.from_result (the generated id is left out)
from_result(r) ==
    [status_code |-> r.status_code, content |-> r.content, hash |-> r.hash,
     url |-> r.url, title |-> r.title]

(* ---------------------------------------------------------------------- *)
(* LLM generator                                                           *)
(* ---------------------------------------------------------------------- *)
\* what one make_request can give back under return_exceptions=True
Failure == [kind |-> "exception", question |-> "", answer |-> "", chunks |-> << >>]
Question(q) == [kind |-> "question", question |-> q, answer |-> "", chunks |-> << >>]
Answer(a, chunks) == [kind |-> "answer", question |-> "", answer |-> a, chunks |-> chunks]

QuestionResponses == { Failure, Question("q1"), Question("q2") }
AnswerResponses == { Failure, Answer("a1", << >>), Answer("a1", <<"c1">>) }

\* domain/models.py: QA, Generation
QA(question, answer, chunks) ==
    [question |-> question, answer |-> answer, chunks |-> chunks]

Generation(question_answers, references, language) ==
    [question_answers |-> question_answers, references |-> references,
     language |-> language]

\* what generate gives its caller when an exception leaves it
Raised == [raised |-> TRUE]

\* the names prompts/en.py and prompts/de.py define
PromptNames ==
    { "EASY_PROMPT", "MEDIUM_PROMPT", "HARD_PROMPT", "MIXED_PROMPT",
      "ANSWER_AND_CHUNKS_PROMPT", "HIERARCHICAL_PROMPT", "CROSS_PAGE_PROMPT",
      "LONG_EASY_PROMPT", "LONG_MEDIUM_PROMPT", "LONG_HARD_PROMPT",
      "LONG_MIXED_PROMPT" }

\* the attributes get_templates reads off the prompt module to build `templates`
TemplateNames(is_short) ==
    IF is_short
    THEN { "EASY_PxROMPT", "MEDIUM_PROMPT", "HARD_PROMPT", "MIXED_PROMPT" }
    ELSE { "LONG_EASY_PROMPT", "LONG_MEDIUM_PROMPT", "LONG_HARD_PROMPT",
           "LONG_MIXED_PROMPT" }

\* llm.py: the default `difficulties` of the distributions
difficulties == << "EASY", "MEDIUM", "HARD" >>

\* list * reps
RECURSIVE Times(_, _)
Times(list, reps) == IF reps <= 0 THEN << >> ELSE list \o Times(list, reps - 1)

\* random.shuffle(dist): the list reordered by the permutation drawn
Shuffled(dist, perm) == [i \in 1..Len(dist) |-> dist[perm[i]]]

\* variant of balanced_difficulty_distribution: the remainder is filled with
\* the first level only
balanced_difficulty_distribution_FirstOnly(k, perm) ==
    LET n == Len(difficulties) IN
    IF k <= n THEN SubSeq(difficulties, 1, k)
    ELSE LET rem == k - n
             reps == rem \div n
             extra == rem % n
             dist == difficulties \o Times(difficulties, reps)
                     \o Times(SubSeq(difficulties, 1, 1), extra)
         IN Shuffled(dist, perm)

\* llm.py: LLMGenerator.balanced_difficulty_distribution(k), perm being the
\* order random.shuffle leaves
balanced_difficulty_distribution(k, perm) ==
    LET n == Len(difficulties) IN
    IF k <= n THEN SubSeq(difficulties, 1, k)
    ELSE LET rem == k - n
             reps == rem \div n
             extra == rem % n
             dist == difficulties \o Times(difficulties, reps)
                     \o SubSeq(difficulties, 1, extra)
         IN Shuffled(dist, perm)

\* llm.py: LLMGenerator.num_questions (bisect_right over the thresholds, plus 1)
Thresholds == << 500, 1000, 2000, 4000 >>

\* variant of num_questions: bisect_left, a threshold counts once exceeded
num_questions_Left(content) ==
    Cardinality({ i \in 1..Len(Thresholds) : Thresholds[i] < Len(content) }) + 1

num_questions(content) ==
    Cardinality({ i \in 1..Len(Thresholds) : Thresholds[i] <= Len(content) }) + 1

\* llm.py: LLMGenerator.get_templates: TRUE when building `templates` succeeds;
\* a missing attribute raises AttributeError
get_templates(res, is_short) == TemplateNames(is_short) \subseteq PromptNames

\* dict(zip(qs, answers)).items(): keys in order of first occurrence, each with
\* the value zipped to its last occurrence
RECURSIVE DictKeys(_, _)
DictKeys(qs, seen) ==
    IF qs = << >> THEN << >>
    ELSE IF Head(qs) \in seen THEN DictKeys(Tail(qs), seen)
    ELSE << Head(qs) >> \o DictKeys(Tail(qs), seen \cup { Head(qs) })

DictZip(qs, answers) ==
    LET keys == DictKeys(qs, {})
        last(q) == CHOOSE i \in 1..Len(qs) :
                      qs[i] = q /\ \A j \in (i + 1)..Len(qs) : qs[j] # q
    IN [k \in 1..Len(keys) |-> << keys[k], answers[last(keys[k])] >>]

RECURSIVE PairsToQAs(_)
PairsToQAs(pairs) ==
    IF pairs = << >> THEN << >>
    ELSE LET q == Head(pairs)[1]
             a == Head(pairs)[2]
         IN (IF a.kind = "answer" THEN << QA(q, a.answer, a.chunks) >> ELSE << >>)
            \o PairsToQAs(Tail(pairs))

Questions(qs_raw) ==
    LET ok == SelectSeq(qs_raw, LAMBDA q : q.kind = "question")
    IN [i \in 1..Len(ok) |-> ok[i].question]

\* llm.py: LLMGenerator.generate after get_templates (lines 111-159).
\* qs_raw: the responses of the question requests; answers_raw: the responses
\* of the answer requests, of which the first Len(qs) are used.
\* Gives Raised, None or a Generation.
generate_body(res, qs_raw, answers_raw) ==
    \* line 129 reads .output of every entry of qs, exceptions included
    IF \E i \in 1..Len(qs_raw) : qs_raw[i].kind = "exception" THEN Raised
    ELSE LET qs == Questions(qs_raw) IN
         IF qs = << >> THEN None
         ELSE Generation(PairsToQAs(DictZip(qs, SubSeq(answers_raw, 1, Len(qs)))),
                         << res >>, res.language)

\* llm.py: LLMGenerator.generate (is_short=True is what it hands get_templates)
generate(res, qs_raw, answers_raw) ==
    IF ~get_templates(res, TRUE) THEN Raised
    ELSE generate_body(res, qs_raw, answers_raw)

\* models.py: FormatterDifficulties
FormatterDifficulties == {"EASY", "MEDIUM", "HARD", "MIXED", "BALANCED"}

\* llm.py: LLMGenerator.mixed_difficulty_distribution(n): random.choices
\* draws each of the n levels on its own; choice is what it drew
mixed_difficulty_distribution(n, choice) == [i \in 1..n |-> choice[i]]

\* llm.py: get_templates, lines 162-175: the levels of the n questions;
\* a difficulty that is no key of the table gets the MIXED entry
Levels(difficulty, n, choice, perm) ==
    CASE difficulty \in {"EASY", "MEDIUM", "HARD"} -> [i \in 1..n |-> difficulty]
      [] difficulty = "BALANCED" -> balanced_difficulty_distribution(n, perm)
      [] OTHER -> mixed_difficulty_distribution(n, choice)

\* llm.py: get_templates, lines 179-184: the attribute of the prompt module
\* each level's template is read from
Templates(is_short) ==
    [level \in {"EASY", "MEDIUM", "HARD", "MIXED"} |->
        CASE level = "EASY" -> IF is_short THEN "EASY_PxROMPT" ELSE "LONG_EASY_PROMPT"
          [] level = "MEDIUM" -> IF is_short THEN "MEDIUM_PROMPT" ELSE "LONG_MEDIUM_PROMPT"
          [] level = "HARD" -> IF is_short THEN "HARD_PROMPT" ELSE "LONG_HARD_PROMPT"
          [] level = "MIXED" -> IF is_short THEN "MIXED_PROMPT" ELSE "LONG_MIXED_PROMPT"]

\* llm.py: generate, line 112: templates.get(level, translation.MIXED_PROMPT)
PromptOf(level, templates) ==
    IF level \in DOMAIN templates THEN templates[level] ELSE "MIXED_PROMPT"

\* llm.py: LLMGenerator.generate(res, is_short), lines 102-123: the levels
\* derived, the attributes read off the prompt module and the template of
\* each question request made. Line 109 hands get_templates is_short=True
\* whatever generate was given.
question_requests(res, is_short, choice, perm) ==
    LET n == num_questions(res.content)
        lv == Levels(res.difficulty, n, choice, perm)
    IN IF ~get_templates(res, TRUE)
       THEN [raised |-> TRUE, levels |-> lv, read |-> TemplateNames(TRUE),
             requests |-> << >>]
       ELSE [raised |-> FALSE, levels |-> lv, read |-> TemplateNames(TRUE),
             requests |-> [i \in 1..n |-> PromptOf(lv[i], Templates(TRUE))]]

\* generate_from_batch: grouped = defaultdict(list) filled in input order
RECURSIVE Languages(_, _)
Languages(rs, seen) ==
    IF rs = << >> THEN << >>
    ELSE IF Head(rs).language \in seen THEN Languages(Tail(rs), seen)
    ELSE << Head(rs).language >>
         \o Languages(Tail(rs), seen \cup { Head(rs).language })

\* variant of grouped: every result is a group of its own
grouped_PerResult(rs) ==
    [k \in 1..Len(rs) |-> [language |-> rs[k].language, results |-> << rs[k] >>]]

grouped(rs) ==
    LET langs == Languages(rs, {})
    IN [k \in 1..Len(langs) |->
          [language |-> langs[k],
           results |-> SelectSeq(rs, LAMBDA r : r.language = langs[k])]]

RECURSIVE Zip(_, _)
Zip(xs, ys) ==
    IF xs = << >> \/ ys = << >> THEN << >>
    ELSE << << Head(xs), Head(ys) >> >> \o Zip(Tail(xs), Tail(ys))

\* llm.py: LLMGenerator.generate_from_batch, the body of the loop over the
\* language groups: None when the group is skipped, else the Generation yielded
generate_group(group, qs_raw, answers_raw) ==
    LET qs == Questions(qs_raw) IN
    IF qs = << >> THEN None
    ELSE Generation(PairsToQAs(Zip(qs, SubSeq(answers_raw, 1, Len(qs)))),
                    group.results, group.language)

\* llm.py: LLMGenerator.generate_from_batch: the Generations it yields, in
\* order, when the k-th language group's question request gets qs[k] and its
\* answer request gets as[k]
RECURSIVE BatchYields(_, _, _)
BatchYields(groups, qs, as) ==
    IF groups = << >> THEN << >>
    ELSE LET gen == generate_group(Head(groups), << Head(qs) >>, << Head(as) >>)
         IN (IF gen = None THEN << >> ELSE << gen >>)
            \o BatchYields(Tail(groups), Tail(qs), Tail(as))

generate_from_batch(task_results, qs, as) ==
    BatchYields(grouped(task_results), qs, as)

\* orm_models.py: GenerationORM.from_generation
from_generation(g) ==
    [question_answers |->
        DictZip([i \in 1..Len(g.question_answers) |-> g.question_answers[i].question],
                [i \in 1..Len(g.question_answers) |-> g.question_answers[i].answer]),
     references |-> [i \in 1..Len(g.references) |-> from_result(g.references[i])],
     language |-> g.language]

(* ---------------------------------------------------------------------- *)
(* State                                                                   *)
(* ---------------------------------------------------------------------- *)
VARIABLES
    log,            \* the topic: messages accepted by the broker, in order
    committed,      \* offset committed for the consumer group
    position,       \* next offset the running consumer fetches
    pc,             \* where WorkerUsecase.run stands
    runs,           \* number of worker starts so far
    batch_size,     \* app_config.generator.batch_size
    enabled,        \* app_config.generator.enabled
    task,           \* the task taken from the consumer
    result,         \* the TaskResult travelling through the download chain
    mi,             \* index of the next mutator of the download chain
    results,        \* run()'s buffer of surviving TaskResults
    infinal,        \* TRUE once the consumer stream ended (final flush)
    pending,        \* language groups generate_from_batch still has to handle
    task_results,   \* table task_results
    generations,    \* table generations
    yielded,        \* Generations yielded outward by run()
    delivered,      \* history: deliveries <<run, offset>> handed to run()
    acked,          \* history: deliveries acknowledge ran for
    normalized,     \* history: deliveries the HTML normalizer ran for
    persisted,      \* history: deliveries whose TaskResult was persisted
    survived,       \* history: deliveries whose result left the download chain
    fetched,        \* history: deliveries a page was fetched for
    curD,           \* history: the delivery `result` comes from
    bufD,           \* history: the deliveries of the results in the buffer
    hashseed,       \* the running process's string-hash seed
    gencalls,       \* history: generator calls [kind, refs, run, final, outcome]
    \* one message on its way from a submitter through a consumer
    wpc,            \* where the message stands
    sent,           \* the Task handed to submit (None: a foreign producer's message)
    wire,           \* the record on the topic: [key, value]
    received,       \* what the consumer's value_deserializer gave
    wresult,        \* the TaskResult made from the received Task
    wyield,         \* the Generations yielded for it
    \* one call of a function of the generator
    fcall,          \* [fn, its arguments, out]
    \* one run_limited call
    limit,          \* its limit argument
    return_exceptions, \* its return_exceptions argument
    coros,          \* state of each sem_task, by position: created, waiting,
                    \* running, returned, raised
    permits,        \* free permits of the semaphore
    completed,      \* history: positions of the operations in completion order
    gathered,       \* what the awaited gather gave: pending, a list, or raised
    \* one run of the scrape use case
    spc,            \* where ScrapeUsecase.run stands
    stream,         \* the values the producer yields, in order
    taken,          \* number of values run() took from the producer
    accumulator,    \* messages sent to the Kafka producer and not yet flushed
    topic,          \* messages the broker accepted, in order
    started,        \* the Kafka producer was started
    flushed,        \* history: __aexit__ flushed the Kafka producer
    stopped,        \* the Kafka producer was stopped
    failed          \* run() ended with an exception

workerVars == << log, committed, position, pc, runs, batch_size, enabled, task,
                 result, mi, results, infinal, pending, task_results,
                 generations, yielded, delivered, acked, normalized, persisted,
                 survived, fetched, curD, bufD, hashseed, gencalls >>
wireVars == << wpc, sent, wire, received, wresult, wyield >>
genVars == << fcall >>
limVars == << limit, return_exceptions, coros, permits, completed, gathered >>

scrapeVars == << spc, stream, taken, accumulator, topic, started, flushed,
                stopped, failed >>

vars == << workerVars, wireVars, genVars, limVars, scrapeVars >>

memory == << task, result, mi, results, infinal, pending, curD, bufD >>
store == << task_results, generations, yielded >>
history == << delivered, acked, normalized, persisted, survived, fetched,
             gencalls >>
config == << batch_size, enabled >>

NoDelivery == << 0, 0 >>

\* no message under way
WireIdle ==
    /\ wpc = "idle"
    /\ sent = None
    /\ wire = None
    /\ received = None
    /\ wresult = None
    /\ wyield = << >>

\* no scraper
ScrapeIdle ==
    /\ spc = "idle"
    /\ stream = << >>
    /\ taken = 0
    /\ accumulator = << >>
    /\ topic = << >>
    /\ started = FALSE
    /\ flushed = FALSE
    /\ stopped = FALSE
    /\ failed = FALSE

\* no generator function called
GenIdle == fcall = [fn |-> "none"]

\* no run_limited call under way
LimIdle ==
    /\ limit = 0
    /\ return_exceptions = TRUE
    /\ coros = << >>
    /\ permits = 0
    /\ completed = << >>
    /\ gathered = [kind |-> "none"]

Init ==
    /\ log = << >>
    /\ committed = 0
    /\ position = 0
    /\ pc = "init"
    /\ runs = 0
    /\ batch_size \in 1..MaxBatch
    /\ enabled \in BOOLEAN
    /\ task = None
    /\ result = None
    /\ mi = 1
    /\ results = << >>
    /\ infinal = FALSE
    /\ pending = << >>
    /\ task_results = << >>
    /\ generations = << >>
    /\ yielded = << >>
    /\ delivered = {}
    /\ acked = {}
    /\ normalized = {}
    /\ persisted = {}
    /\ survived = {}
    /\ fetched = {}
    /\ curD = NoDelivery
    /\ bufD = << >>
    /\ hashseed = 1
    /\ gencalls = << >>
    /\ WireIdle
    /\ GenIdle
    /\ LimIdle
    /\ ScrapeIdle

\* the process's memory is gone
Forget ==
    /\ task' = None
    /\ result' = None
    /\ mi' = 1
    /\ results' = << >>
    /\ infinal' = FALSE
    /\ pending' = << >>
    /\ curD' = NoDelivery
    /\ bufD' = << >>

\* kafka.py: KafkaQueueSubmitter.submit, called by a scraper process
Submit ==
    /\ Len(log) < MaxLog
    /\ \E t \in TaskSet : log' = Append(log, t)
    /\ UNCHANGED << committed, position, pc, runs, config, memory, store,
                    history, hashseed >>
    /\ UNCHANGED << wireVars, genVars, limVars, scrapeVars >>

\* worker.py: run() entering `async with self.consumer` (KafkaConsumer.__aenter__:
\* group_id set, enable_auto_commit=False, auto_offset_reset="earliest")
Start ==
    /\ pc \in {"init", "crashed", "done"}
    /\ runs < MaxRuns
    /\ runs' = runs + 1
    /\ position' = committed
    /\ hashseed' \in HashSeeds
    /\ pc' = "consume"
    /\ Forget
    /\ UNCHANGED << log, committed, config, store, history >>
    /\ UNCHANGED << wireVars, genVars, limVars, scrapeVars >>

\* variant of Consume: a consumer with auto-commit, committing what it hands out
Consume_AutoCommit ==
    /\ pc = "consume"
    /\ position < Len(log)
    /\ task' = log[position + 1]
    /\ curD' = << runs, position >>
    /\ position' = position + 1
    /\ committed' = position + 1
    /\ delivered' = delivered \cup { << runs, position >> }
    /\ pc' = "download"
    /\ UNCHANGED << log, runs, config, result, mi, results, infinal,
                    pending, bufD, store, acked, normalized, persisted, fetched,
                    survived, gencalls, hashseed >>
    /\ UNCHANGED << wireVars, genVars, limVars, scrapeVars >>

\* kafka.py: KafkaConsumer.__call__ handing the next message to run()'s loop
Consume ==
    /\ pc = "consume"
    /\ position < Len(log)
    /\ task' = log[position + 1]
    /\ curD' = << runs, position >>
    /\ position' = position + 1
    /\ delivered' = delivered \cup { << runs, position >> }
    /\ pc' = "download"
    /\ UNCHANGED << log, committed, runs, config, result, mi, results, infinal,
                    pending, bufD, store, acked, normalized, persisted, fetched,
                    survived, gencalls, hashseed >>
    /\ UNCHANGED << wireVars, genVars, limVars, scrapeVars >>

\* the consumer's stream ends
StreamEnd ==
    /\ pc = "consume"
    /\ infinal' = TRUE
    /\ pc' = "final"
    /\ UNCHANGED << log, committed, position, runs, config, task, result, mi,
                    results, pending, curD, bufD, store, history, hashseed >>
    /\ UNCHANGED << wireVars, genVars, limVars, scrapeVars >>

\* variant of Download: a task the downloader drops is acknowledged at once
Download_AckDropped ==
    /\ pc = "download"
    /\ LET r == downloader(task, hashseed) IN
       /\ result' = r
       /\ pc' = IF r = None THEN "consume" ELSE "mutate"
       /\ committed' = IF r = None THEN position ELSE committed
    /\ fetched' = IF task.downloader = "confluence" THEN fetched \cup { curD }
                  ELSE fetched
    /\ mi' = 1
    /\ UNCHANGED << log, position, runs, config, task, results,
                    infinal, pending, curD, bufD, store, delivered, acked,
                    normalized, persisted, survived, gencalls, hashseed >>
    /\ UNCHANGED << wireVars, genVars, limVars, scrapeVars >>

\* variant of Download: the page is fetched before the tag is looked at
Download_FetchFirst ==
    /\ pc = "download"
    /\ LET r == downloader(task, hashseed) IN
       /\ result' = r
       /\ pc' = IF r = None THEN "consume" ELSE "mutate"
    /\ fetched' = fetched \cup { curD }
    /\ mi' = 1
    /\ UNCHANGED << log, committed, position, runs, config, task, results,
                    infinal, pending, curD, bufD, store, delivered, acked,
                    normalized, persisted, survived, gencalls, hashseed >>
    /\ UNCHANGED << wireVars, genVars, limVars, scrapeVars >>

\* worker.py: run(), lines 88-90; the downloader calls get_page_by_id (line
\* 42) for a task of its own tag only
Download ==
    /\ pc = "download"
    /\ LET r == downloader(task, hashseed) IN
       /\ result' = r
       /\ pc' = IF r = None THEN "consume" ELSE "mutate"
    /\ fetched' = IF task.downloader = "confluence" THEN fetched \cup { curD }
                  ELSE fetched
    /\ mi' = 1
    /\ UNCHANGED << log, committed, position, runs, config, task, results,
                    infinal, pending, curD, bufD, store, delivered, acked,
                    normalized, persisted, survived, gencalls, hashseed >>
    /\ UNCHANGED << wireVars, genVars, limVars, scrapeVars >>

\* variant of mutators: the download chain with acknowledge as its last stage
mutators_AckLast == << "HTMLParser", "persistence", "acknowledge" >>

\* worker.py: __post_init__, self.mutators
mutators == << "acknowledge", "HTMLParser", "persistence" >>

\* worker.py: run(), lines 94-98: on to the next mutator or out of the loop
Advance ==
    /\ mi' = IF mi < Len(mutators) THEN mi + 1 ELSE 1
    /\ pc' = IF mi < Len(mutators) THEN "mutate" ELSE "append"

\* variant of Acknowledge: returns the result without committing
Acknowledge_NoCommit ==
    /\ pc = "mutate"
    /\ mutators[mi] = "acknowledge"
    /\ acked' = acked \cup { curD }
    /\ Advance
    /\ UNCHANGED << log, committed, position, runs, config, task, result,
                    results, infinal, pending, curD, bufD, store, delivered,
                    normalized, persisted, fetched, survived, gencalls, hashseed >>
    /\ UNCHANGED << wireVars, genVars, limVars, scrapeVars >>

\* kafka.py: KafkaConsumer.acknowledge: commit() commits the consumer's position
Acknowledge ==
    /\ pc = "mutate"
    /\ mutators[mi] = "acknowledge"
    /\ committed' = position
    /\ acked' = acked \cup { curD }
    /\ Advance
    /\ UNCHANGED << log, position, runs, config, task, result, results, infinal,
                    pending, curD, bufD, store, delivered, normalized,
                    persisted, fetched, survived, gencalls, hashseed >>
    /\ UNCHANGED << wireVars, genVars, limVars, scrapeVars >>

\* html_parser.py: HTMLParser.__call__ as a mutator
Normalize ==
    /\ pc = "mutate"
    /\ mutators[mi] = "HTMLParser"
    /\ result' = HTMLParser(result)
    /\ normalized' = normalized \cup { curD }
    /\ Advance
    /\ UNCHANGED << log, committed, position, runs, config, task, results,
                    infinal, pending, curD, bufD, store, delivered, acked,
                    persisted, fetched, survived, gencalls, hashseed >>
    /\ UNCHANGED << wireVars, genVars, limVars, scrapeVars >>

\* variant of Persist: the row of a page already stored is written over
Persist_Upsert ==
    /\ pc = "mutate"
    /\ mutators[mi] = "persistence"
    /\ task_results' =
          IF \E k \in 1..Len(task_results) : task_results[k].url = result.url
          THEN [k \in 1..Len(task_results) |->
                  IF task_results[k].url = result.url THEN from_result(result)
                  ELSE task_results[k]]
          ELSE Append(task_results, from_result(result))
    /\ persisted' = persisted \cup { curD }
    /\ Advance
    /\ UNCHANGED << log, committed, position, runs, config, task, result,
                    results, infinal, pending, curD, bufD, generations, yielded,
                    delivered, acked, normalized, survived, fetched, gencalls,
                    hashseed >>
    /\ UNCHANGED << wireVars, genVars, limVars, scrapeVars >>

\* sqlite_persistence.py: SqlitePersistence.__call__ on a TaskResult
Persist ==
    /\ pc = "mutate"
    /\ mutators[mi] = "persistence"
    /\ task_results' = Append(task_results, from_result(result))
    /\ persisted' = persisted \cup { curD }
    /\ Advance
    /\ UNCHANGED << log, committed, position, runs, config, task, result,
                    results, infinal, pending, curD, bufD, generations, yielded,
                    delivered, acked, normalized, survived, fetched, gencalls,
                    hashseed >>
    /\ UNCHANGED << wireVars, genVars, limVars, scrapeVars >>

\* variant of AppendResult: the batch is flushed once it exceeds batch_size
AppendResult_FlushLate ==
    /\ pc = "append"
    /\ LET buf == Append(results, result)
           bd == Append(bufD, curD)
       IN IF batch_size <= 1
          THEN /\ result' = Head(buf)
               /\ curD' = Head(bd)
               /\ results' = Tail(buf)
               /\ bufD' = Tail(bd)
               /\ pc' = "process"
          ELSE /\ results' = buf
               /\ bufD' = bd
               /\ UNCHANGED << result, curD >>
               /\ pc' = IF Len(buf) > batch_size THEN "process_batch"
                        ELSE "consume"
    /\ survived' = survived \cup { curD }
    /\ UNCHANGED << log, committed, position, runs, config, task, mi, infinal,
                    pending, store, delivered, acked, normalized, persisted, fetched,
                    gencalls, hashseed >>
    /\ UNCHANGED << wireVars, genVars, limVars, scrapeVars >>

\* worker.py: run(), lines 105-118
AppendResult ==
    /\ pc = "append"
    /\ LET buf == Append(results, result)
           bd == Append(bufD, curD)
       IN IF batch_size <= 1
          THEN /\ result' = Head(buf)
               /\ curD' = Head(bd)
               /\ results' = Tail(buf)
               /\ bufD' = Tail(bd)
               /\ pc' = "process"
          ELSE /\ results' = buf
               /\ bufD' = bd
               /\ UNCHANGED << result, curD >>
               /\ pc' = IF Len(buf) >= batch_size THEN "process_batch"
                        ELSE "consume"
    /\ survived' = survived \cup { curD }
    /\ UNCHANGED << log, committed, position, runs, config, task, mi, infinal,
                    pending, store, delivered, acked, normalized, persisted, fetched,
                    gencalls, hashseed >>
    /\ UNCHANGED << wireVars, genVars, limVars, scrapeVars >>

\* where run() goes on after a flush
AfterFlush == IF infinal THEN "done" ELSE "consume"

\* sqlite_persistence.py: SqlitePersistence.__call__ on a Generation, then the
\* yield of run()
Emit(gen) ==
    /\ generations' = Append(generations, from_generation(gen))
    /\ yielded' = Append(yielded, gen)

\* variant of Process: the generator is called whatever `enabled` says
Process_AlwaysGenerate ==
    /\ pc = "process"
    /\ IF FALSE
       THEN /\ pc' = AfterFlush
            /\ UNCHANGED << memory, store, history >>
       ELSE LET n == num_questions(result.content) IN
            \E qs_raw \in [1..n -> QuestionResponses],
               answers_raw \in [1..n -> AnswerResponses] :
              LET gen == generate(result, qs_raw, answers_raw)
                  call == [kind |-> "generate", refs |-> << curD >>,
                           run |-> runs, final |-> infinal,
                           outcome |-> IF gen = Raised THEN "raised"
                                       ELSE IF gen = None THEN "none"
                                       ELSE "generation"]
              IN /\ gencalls' = Append(gencalls, call)
                 /\ UNCHANGED << delivered, acked, normalized, persisted, fetched,
                                 survived, task_results >>
                 /\ IF gen = Raised
                    THEN /\ pc' = "crashed"
                         /\ Forget
                         /\ UNCHANGED << generations, yielded >>
                    ELSE /\ pc' = AfterFlush
                         /\ UNCHANGED memory
                         /\ IF gen = None
                            THEN UNCHANGED << generations, yielded >>
                            ELSE Emit(gen)
    /\ UNCHANGED << log, committed, position, runs, config, hashseed >>
    /\ UNCHANGED << wireVars, genVars, limVars, scrapeVars >>

\* worker.py: WorkerUsecase.process, driven by run() lines 110-112 / 125-126
Process ==
    /\ pc = "process"
    /\ IF ~enabled
       THEN /\ pc' = AfterFlush
            /\ UNCHANGED << memory, store, history >>
       ELSE LET n == num_questions(result.content) IN
            \E qs_raw \in [1..n -> QuestionResponses],
               answers_raw \in [1..n -> AnswerResponses] :
              LET gen == generate(result, qs_raw, answers_raw)
                  call == [kind |-> "generate", refs |-> << curD >>,
                           run |-> runs, final |-> infinal,
                           outcome |-> IF gen = Raised THEN "raised"
                                       ELSE IF gen = None THEN "none"
                                       ELSE "generation"]
              IN /\ gencalls' = Append(gencalls, call)
                 /\ UNCHANGED << delivered, acked, normalized, persisted, fetched,
                                 survived, task_results >>
                 /\ IF gen = Raised
                    THEN /\ pc' = "crashed"
                         /\ Forget
                         /\ UNCHANGED << generations, yielded >>
                    ELSE /\ pc' = AfterFlush
                         /\ UNCHANGED memory
                         /\ IF gen = None
                            THEN UNCHANGED << generations, yielded >>
                            ELSE Emit(gen)
    /\ UNCHANGED << log, committed, position, runs, config, hashseed >>
    /\ UNCHANGED << wireVars, genVars, limVars, scrapeVars >>

\* worker.py: WorkerUsecase.process_batch up to the call of generate_from_batch,
\* driven by run() lines 116-118 / 128-131
ProcessBatch ==
    /\ pc = "process_batch"
    /\ IF ~enabled
       THEN /\ results' = << >>
            /\ bufD' = << >>
            /\ pc' = AfterFlush
            /\ UNCHANGED << pending, gencalls >>
       ELSE /\ gencalls' = Append(gencalls,
                                  [kind |-> "generate_from_batch", refs |-> bufD,
                                   run |-> runs, final |-> infinal,
                                   outcome |-> "stream"])
            /\ pending' = grouped(results)
            /\ pc' = "batch_group"
            /\ UNCHANGED << results, bufD >>
    /\ UNCHANGED << log, committed, position, runs, config, task, result, mi,
                    infinal, curD, store, delivered, acked, normalized,
                    persisted, fetched, survived, hashseed >>
    /\ UNCHANGED << wireVars, genVars, limVars, scrapeVars >>

\* llm.py: one turn of generate_from_batch's loop over the language groups,
\* with process_batch's handling of what it yields; after the last group
\* run() clears the buffer
GenerateGroup ==
    /\ pc = "batch_group"
    /\ pending # << >>
    /\ \E q \in QuestionResponses, a \in AnswerResponses :
         LET gen == generate_group(Head(pending), << q >>, << a >>) IN
         IF gen = None
         THEN UNCHANGED << generations, yielded >>
         ELSE Emit(gen)
    /\ pending' = Tail(pending)
    /\ IF Tail(pending) = << >>
       THEN /\ results' = << >>
            /\ bufD' = << >>
            /\ pc' = AfterFlush
       ELSE UNCHANGED << results, bufD, pc >>
    /\ UNCHANGED << log, committed, position, runs, config, task, result, mi,
                    infinal, curD, task_results, history, hashseed >>
    /\ UNCHANGED << wireVars, genVars, limVars, scrapeVars >>

\* variant of FinalFlush: run() ends without flushing the leftovers
FinalFlush_NoFlush ==
    /\ pc = "final"
    /\ pc' = "done"
    /\ UNCHANGED << result, curD, results, bufD >>
    /\ UNCHANGED << log, committed, position, runs, config, task, mi, infinal,
                    pending, store, history, hashseed >>
    /\ UNCHANGED << wireVars, genVars, limVars, scrapeVars >>

\* worker.py: run(), lines 120-131, and leaving `async with self.consumer`
FinalFlush ==
    /\ pc = "final"
    /\ IF results = << >>
       THEN /\ pc' = "done"
            /\ UNCHANGED << result, curD, results, bufD >>
       ELSE IF batch_size <= 1
       THEN /\ result' = Head(results)
            /\ curD' = Head(bufD)
            /\ results' = Tail(results)
            /\ bufD' = Tail(bufD)
            /\ pc' = "process"
       ELSE /\ pc' = "process_batch"
            /\ UNCHANGED << result, curD, results, bufD >>
    /\ UNCHANGED << log, committed, position, runs, config, task, mi, infinal,
                    pending, store, history, hashseed >>
    /\ UNCHANGED << wireVars, genVars, limVars, scrapeVars >>

\* the worker process stops: a signal, a kill, or an exception of a stage
Crash ==
    /\ pc \in {"consume", "download", "mutate", "append", "process",
               "process_batch", "batch_group", "final"}
    /\ pc' = "crashed"
    /\ Forget
    /\ UNCHANGED << log, committed, position, runs, config, store, history,
                    hashseed >>
    /\ UNCHANGED << wireVars, genVars, limVars, scrapeVars >>

Next ==
    \/ Submit
    \/ Start
    \/ Consume
    \/ StreamEnd
    \/ Download
    \/ Acknowledge
    \/ Normalize
    \/ Persist
    \/ AppendResult
    \/ Process
    \/ ProcessBatch
    \/ GenerateGroup
    \/ FinalFlush
    \/ Crash

Spec == Init /\ [][Next]_vars

TypeOK ==
    /\ committed \in 0..MaxLog
    /\ position \in 0..MaxLog
    /\ Len(log) <= MaxLog

(* ---------------------------------------------------------------------- *)
(* The generator's functions, each called on its own                       *)
(* ---------------------------------------------------------------------- *)
\* a normalized document of k words
Words(k) == [i \in 1..k |-> "w"]

\* TaskResults as they leave the download chain
Doc(title, k, language) ==
    TaskResult(title, title, 200, Json, Words(k), strhash(title, 1), language,
               "MIXED", 7)

GenResults ==
    { Doc("A", 3, "en"), Doc("B", 3, "de"), Doc("C", 500, "en"),
      Doc("D", 1000, "de") }

\* no worker, no scraper: an empty topic and empty tables
WorkerIdle ==
    /\ log = << >>
    /\ committed = 0
    /\ position = 0
    /\ pc = "init"
    /\ runs = 0
    /\ batch_size = 1
    /\ enabled = TRUE
    /\ task = None
    /\ result = None
    /\ mi = 1
    /\ results = << >>
    /\ infinal = FALSE
    /\ pending = << >>
    /\ task_results = << >>
    /\ generations = << >>
    /\ yielded = << >>
    /\ delivered = {}
    /\ acked = {}
    /\ normalized = {}
    /\ persisted = {}
    /\ survived = {}
    /\ fetched = {}
    /\ curD = NoDelivery
    /\ bufD = << >>
    /\ hashseed = 1
    /\ gencalls = << >>

GenInit ==
    /\ GenIdle
    /\ WorkerIdle
    /\ WireIdle
    /\ LimIdle
    /\ ScrapeIdle

\* llm.py: LLMGenerator.generate from line 111 on, with the responses the
\* question requests and the answer requests get
GenerateBody ==
    /\ GenIdle
    /\ \E res \in GenResults :
         LET n == num_questions(res.content) IN
         /\ n <= MaxQuestions
         /\ \E qs_raw \in [1..n -> QuestionResponses],
               answers_raw \in [1..n -> AnswerResponses] :
              fcall' = [fn |-> "generate_body", res |-> res, qs_raw |-> qs_raw,
                        answers_raw |-> answers_raw,
                        out |-> generate_body(res, qs_raw, answers_raw)]
    /\ UNCHANGED << workerVars, wireVars, limVars, scrapeVars >>

\* the sequences over S of length at most n
RECURSIVE SeqsUpTo(_, _)
SeqsUpTo(S, n) ==
    IF n = 0 THEN { << >> }
    ELSE LET shorter == SeqsUpTo(S, n - 1)
         IN shorter \cup { Append(q, x) : q \in shorter, x \in S }

\* llm.py: LLMGenerator.generate_from_batch on a batch of the worker
GenerateFromBatch ==
    /\ GenIdle
    /\ \E rs \in SeqsUpTo(GenResults, MaxBatch) :
         LET k == Len(grouped(rs)) IN
         \E qs \in [1..k -> QuestionResponses], as \in [1..k -> AnswerResponses] :
            fcall' = [fn |-> "generate_from_batch", task_results |-> rs,
                      qs |-> qs, as |-> as,
                      out |-> generate_from_batch(rs, qs, as)]
    /\ UNCHANGED << workerVars, wireVars, limVars, scrapeVars >>

\* llm.py: LLMGenerator.num_questions on a document of k words
NumQuestions ==
    /\ GenIdle
    /\ \E k \in 0..MaxWords :
         fcall' = [fn |-> "num_questions", words |-> k,
                   out |-> num_questions(Words(k))]
    /\ UNCHANGED << workerVars, wireVars, limVars, scrapeVars >>

\* llm.py: LLMGenerator.balanced_difficulty_distribution for k questions
Balanced ==
    /\ GenIdle
    /\ \E k \in 0..MaxLevels : \E perm \in Permutations(1..k) :
         fcall' = [fn |-> "balanced_difficulty_distribution", k |-> k,
                   out |-> balanced_difficulty_distribution(k, perm)]
    /\ UNCHANGED << workerVars, wireVars, limVars, scrapeVars >>

\* llm.py: LLMGenerator.generate up to its question requests, for a document
\* of each difficulty, with what the random draws give
GenerateQuestions ==
    /\ GenIdle
    /\ \E r \in GenResults, d \in FormatterDifficulties, is_short \in BOOLEAN :
         LET res == [r EXCEPT !.difficulty = d]
             n == num_questions(res.content)
         IN \E choice \in [1..n -> {"EASY", "MEDIUM", "HARD"}],
               perm \in Permutations(1..n) :
              fcall' = [fn |-> "generate", res |-> res, is_short |-> is_short,
                        out |-> question_requests(res, is_short, choice, perm)]
    /\ UNCHANGED << workerVars, wireVars, limVars, scrapeVars >>

GenNext ==
    \/ GenerateBody
    \/ GenerateFromBatch
    \/ NumQuestions
    \/ Balanced
    \/ GenerateQuestions

GenSpec == GenInit /\ [][GenNext]_vars

(* ---------------------------------------------------------------------- *)
(* One message from a submitter to a consumer                              *)
(* ---------------------------------------------------------------------- *)
\* JSON text, as a tree: a string, a number, or an object, which is a set of
\* members << name, value >>
JString(s) == [s |-> s]
JNumber(n) == [n |-> n]
JObject(members) == [o |-> members]

\* the types of the values a Task holds
Str == [py |-> "str"]
Float == [py |-> "float"]
DictOf(ty) == [py |-> "dict", of |-> ty]

\* domain/models.py: the fields of Task, those without a default, the defaults
TaskFields ==
    { "title", "url", "downloader", "idempotency_key", "metadata", "language",
      "difficulty", "temperature" }
RequiredFields == { "title", "url", "downloader", "idempotency_key", "metadata" }
DefaultLanguage == "de"
DefaultDifficulty == "MIXED"
DefaultTemperature == 7

TaskType(f) ==
    CASE f = "metadata" -> DictOf(DictOf(Str))
      [] f = "temperature" -> Float
      [] OTHER -> Str

\* orjson.dumps of a value of type ty
RECURSIVE dumps(_, _)
dumps(v, ty) ==
    CASE ty.py = "str" -> JString(v)
      [] ty.py = "float" -> JNumber(v)
      [] ty.py = "dict" -> JObject({ << k, dumps(v[k], ty.of) >> : k \in DOMAIN v })

\* orjson.loads: an object gives a dict, a later member of a name wins
RECURSIVE loads(_)
loads(j) ==
    IF "s" \in DOMAIN j THEN j.s
    ELSE IF "n" \in DOMAIN j THEN j.n
    ELSE LET names == { m[1] : m \in j.o }
         IN [k \in names |-> loads((CHOOSE m \in j.o : m[1] = k)[2])]

\* dataclasses.asdict
asdict(t) == [f \in TaskFields |-> t[f]]

\* kafka.py: KafkaQueueSubmitter.serialize_task
serialize_task(t) ==
    LET d == asdict(t)
    IN JObject({ << f, dumps(d[f], TaskType(f)) >> : f \in DOMAIN d })

\* kafka.py: the key_serializer of the producer: str(s).encode("utf-8"), and
\* the text such bytes stand for
key_serializer(s) == [utf8 |-> s]
decode(b) == b.utf8

\* what the deserializer raises
TypeError == [raised |-> "TypeError"]

\* variant of TaskFromDict: the temperature is not read
TaskFromDict_DefaultTemperature(d) ==
    IF ~(DOMAIN d \subseteq TaskFields) THEN TypeError
    ELSE IF ~(RequiredFields \subseteq DOMAIN d) THEN TypeError
    ELSE Task(d.title, d.url, d.downloader, d.idempotency_key, d.metadata,
              IF "language" \in DOMAIN d THEN d.language ELSE DefaultLanguage,
              IF "difficulty" \in DOMAIN d THEN d.difficulty ELSE DefaultDifficulty,
              DefaultTemperature)

\* domain/models.py: Task(**d), the generated __init__ of the dataclass
TaskFromDict(d) ==
    IF ~(DOMAIN d \subseteq TaskFields) THEN TypeError
    ELSE IF ~(RequiredFields \subseteq DOMAIN d) THEN TypeError
    ELSE Task(d.title, d.url, d.downloader, d.idempotency_key, d.metadata,
              IF "language" \in DOMAIN d THEN d.language ELSE DefaultLanguage,
              IF "difficulty" \in DOMAIN d THEN d.difficulty ELSE DefaultDifficulty,
              IF "temperature" \in DOMAIN d THEN d.temperature
              ELSE DefaultTemperature)

\* kafka.py: the value_deserializer of the consumer
value_deserializer(val) == TaskFromDict(loads(val))

\* tasks a scraper hands to submit
WireTasks ==
    { Task("A", "p1", "confluence", "k1", Links("/p1"), "en", "EASY", 2),
      Task("B", "p3", "confluence", "k2", Links("/p3"), "de", "MIXED", 7),
      Task("C", "p2", "confluence", "k3", Links("/p2"), "de", "HARD", 10),
      Task("D", "p4", "confluence", "k4", Links("/p4"), "en", "BALANCED", 0) }

\* values another producer may write to the topic: a task in a language the
\* prompts do not cover, a message with an additional member, messages
\* lacking one member
Without(obj, f) == JObject({ m \in obj.o : m[1] # f })
With(obj, f, j) == JObject(obj.o \cup { << f, j >> })

ForeignValues ==
    { serialize_task(Task("F", "p1", "confluence", "k6", Links("/p1"), "fr",
                          "EASY", 2)) }
    \cup { With(serialize_task(t), "priority", JNumber(1)) : t \in WireTasks }
    \cup { Without(serialize_task(t), f) : t \in WireTasks, f \in TaskFields }

WireInit ==
    /\ WireIdle
    /\ WorkerIdle
    /\ GenIdle
    /\ LimIdle
    /\ ScrapeIdle

\* kafka.py: KafkaQueueSubmitter.submit
WireSubmit ==
    /\ wpc = "idle"
    /\ \E t \in WireTasks :
         /\ sent' = t
         /\ wire' = [key |-> key_serializer(t.idempotency_key),
                     value |-> serialize_task(t)]
    /\ wpc' = "sent"
    /\ UNCHANGED << received, wresult, wyield, workerVars, genVars, limVars,
                    scrapeVars >>

\* another producer writes to the topic
ForeignSend ==
    /\ wpc = "idle"
    /\ \E val \in ForeignValues :
         wire' = [key |-> key_serializer("x"), value |-> val]
    /\ wpc' = "sent"
    /\ UNCHANGED << sent, received, wresult, wyield, workerVars, genVars,
                    limVars, scrapeVars >>

\* kafka.py: the consumer fetching the message (value_deserializer, line 91)
Deserialize ==
    /\ wpc = "sent"
    /\ received' = value_deserializer(wire.value)
    /\ wpc' = IF received' = TypeError THEN "rejected" ELSE "received"
    /\ UNCHANGED << sent, wire, wresult, wyield, workerVars, genVars, limVars,
                    scrapeVars >>

\* worker.py: run(), the downloader on the received task
WireDownload ==
    /\ wpc = "received"
    /\ wresult' = downloader(received, hashseed)
    /\ wpc' = IF wresult' = None THEN "dropped" ELSE "downloaded"
    /\ UNCHANGED << sent, wire, received, wyield, workerVars, genVars, limVars,
                    scrapeVars >>

\* worker.py: run(), the download chain (the normalizer is what changes the
\* result)
WireNormalize ==
    /\ wpc = "downloaded"
    /\ wresult' = HTMLParser(wresult)
    /\ wpc' = "normalized"
    /\ UNCHANGED << sent, wire, received, wyield, workerVars, genVars, limVars,
                    scrapeVars >>

\* worker.py: process_batch on the result, flushed as a batch of one
WireGenerate ==
    /\ wpc = "normalized"
    /\ \E q \in QuestionResponses, a \in AnswerResponses :
         wyield' = generate_from_batch(<< wresult >>, << q >>, << a >>)
    /\ wpc' = "generated"
    /\ UNCHANGED << sent, wire, received, wresult, workerVars, genVars, limVars,
                    scrapeVars >>

WireNext ==
    \/ WireSubmit
    \/ ForeignSend
    \/ Deserialize
    \/ WireDownload
    \/ WireNormalize
    \/ WireGenerate

WireSpec == WireInit /\ [][WireNext]_vars

(* ---------------------------------------------------------------------- *)
(* One call of run_limited                                                 *)
(* ---------------------------------------------------------------------- *)
\* what the operation at position i returns, and what it raises
ResultOf(i) == << "result", i >>
ExceptionOf(i) == << "exception", i >>

HoldingPermit == { i \in 1..Len(coros) : coros[i] = "running" }
Waiting == { i \in 1..Len(coros) : coros[i] = "waiting" }
Done(cs) == \A i \in 1..Len(cs) : cs[i] \in {"returned", "raised"}

LimInit ==
    /\ LimIdle
    /\ ScrapeIdle
    /\ WorkerIdle
    /\ WireIdle
    /\ GenIdle

\* asyncio.py: run_limited, lines 39-45: the semaphore is made and gather
\* schedules one sem_task per operation
RunLimited ==
    /\ gathered.kind = "none"
    /\ \E n \in 0..MaxOps, l \in 1..MaxLimit, re \in BOOLEAN :
         /\ coros' = [i \in 1..n |-> "created"]
         /\ limit' = l
         /\ permits' = l
         /\ return_exceptions' = re
         /\ gathered' = IF n = 0 THEN [kind |-> "list", values |-> << >>]
                        ELSE [kind |-> "pending"]
    /\ UNCHANGED << completed, workerVars, wireVars, genVars, scrapeVars >>

\* variant of Enter: the operation is awaited without the semaphore
Enter_NoSemaphore(i) ==
    /\ i \in 1..Len(coros)
    /\ coros[i] = "created"
    /\ \A j \in 1..(i - 1) : coros[j] # "created"
    /\ coros' = [coros EXCEPT ![i] = "running"]
    /\ UNCHANGED << permits, limit, return_exceptions, completed, gathered,
                    workerVars, wireVars, genVars, scrapeVars >>

\* asyncio.py: sem_task, `async with semaphore`: the tasks start in input
\* order; one takes a permit when one is free and nobody waits, else it waits
Enter(i) ==
    /\ i \in 1..Len(coros)
    /\ coros[i] = "created"
    /\ \A j \in 1..(i - 1) : coros[j] # "created"
    /\ IF permits > 0 /\ Waiting = {}
       THEN /\ coros' = [coros EXCEPT ![i] = "running"]
            /\ permits' = permits - 1
       ELSE /\ coros' = [coros EXCEPT ![i] = "waiting"]
            /\ UNCHANGED permits
    /\ UNCHANGED << limit, return_exceptions, completed, gathered,
                    workerVars, wireVars, genVars, scrapeVars >>

\* the semaphore wakes its first waiter, which takes the permit and goes on to
\* `await coro`
Wake(i) ==
    /\ i \in Waiting
    /\ \A j \in Waiting : i <= j
    /\ permits > 0
    /\ coros' = [coros EXCEPT ![i] = "running"]
    /\ permits' = permits - 1
    /\ UNCHANGED << limit, return_exceptions, completed, gathered,
                    workerVars, wireVars, genVars, scrapeVars >>

\* variant of GatherResult: the values in the order of completion
GatherResult_ByCompletion(cs, order) ==
    [n \in 1..Len(order) |->
        IF cs[order[n]] = "returned" THEN ResultOf(order[n])
        ELSE ExceptionOf(order[n])]

\* asyncio.gather's result list: the value of each operation at its position
GatherResult(cs, order) ==
    [i \in 1..Len(cs) |->
        IF cs[i] = "returned" THEN ResultOf(i) ELSE ExceptionOf(i)]

\* variant of Finish: an operation that raises keeps its permit
Finish_LeakOnRaise(i) ==
    /\ i \in HoldingPermit
    /\ \E ok \in BOOLEAN :
         LET cs == [coros EXCEPT ![i] = IF ok THEN "returned" ELSE "raised"]
             order == Append(completed, i)
         IN /\ coros' = cs
            /\ completed' = order
            /\ gathered' =
                 IF gathered.kind # "pending" THEN gathered
                 ELSE IF ~ok /\ ~return_exceptions
                 THEN [kind |-> "raised", exception |-> ExceptionOf(i)]
                 ELSE IF Done(cs)
                 THEN [kind |-> "list", values |-> GatherResult(cs, order)]
                 ELSE gathered
            /\ permits' = IF ok THEN permits + 1 ELSE permits
    /\ UNCHANGED << limit, return_exceptions, workerVars, wireVars, genVars,
                    scrapeVars >>

\* asyncio.py: sem_task, the awaited operation returns or raises, the permit
\* goes back on leaving `async with`; gather takes note of the outcome
Finish(i) ==
    /\ i \in HoldingPermit
    /\ \E ok \in BOOLEAN :
         LET cs == [coros EXCEPT ![i] = IF ok THEN "returned" ELSE "raised"]
             order == Append(completed, i)
         IN /\ coros' = cs
            /\ completed' = order
            /\ gathered' =
                 IF gathered.kind # "pending" THEN gathered
                 ELSE IF ~ok /\ ~return_exceptions
                 THEN [kind |-> "raised", exception |-> ExceptionOf(i)]
                 ELSE IF Done(cs)
                 THEN [kind |-> "list", values |-> GatherResult(cs, order)]
                 ELSE gathered
    /\ permits' = permits + 1
    /\ UNCHANGED << limit, return_exceptions, workerVars, wireVars, genVars,
                    scrapeVars >>

LimNext ==
    \/ RunLimited
    \/ \E i \in 1..MaxOps : Enter(i)
    \/ \E i \in 1..MaxOps : Wake(i)
    \/ \E i \in 1..MaxOps : Finish(i)

LimSpec == LimInit /\ [][LimNext]_vars

\* the event loop runs every task that is ready, the semaphore wakes a waiter
\* when a permit is free, and every operation terminates
LimFairSpec ==
    /\ LimInit
    /\ [][LimNext]_vars
    /\ \A i \in 1..MaxOps :
          WF_vars(Enter(i)) /\ WF_vars(Wake(i)) /\ WF_vars(Finish(i))

(* ---------------------------------------------------------------------- *)
(* The downloader and the parser, each called on its own                   *)
(* ---------------------------------------------------------------------- *)
\* the nodes a page body is made of: paragraphs, scripts, flat lists and
\* lists with a list nested in their first item
Nested(outer, inner) ==
    Node(outer, << Li(<< "a" >>, << Node(inner, << Item("b") >>) >>), Item("c") >>)

HtmlNodes ==
    { Node("p", << "x" >>), Node("script", << "s" >>), Node("style", << "s" >>),
      Node("ol", << Item("a"), Item("b") >>),
      Node("ul", << Item("a"), Item("b") >>),
      Nested("ol", "ol"), Nested("ol", "ul"), Nested("ul", "ol"),
      Nested("ul", "ul") }

HtmlBodies == UNION { [1..n -> HtmlNodes] : n \in 0..MaxNodes }

\* tasks for every kind of page, with the downloader's tag and another one
FetchTasks ==
    { Task(u, u, d, u, Links(u), "en", "EASY", 2) :
        u \in {"p1", "p2", "p3", "p4", "p5", "p6"}, d \in {"confluence", "other"} }

ChainInit ==
    /\ GenIdle
    /\ WorkerIdle
    /\ WireIdle
    /\ LimIdle
    /\ ScrapeIdle

\* html_parser.py: HTMLParser.parse on one body
Parse ==
    /\ GenIdle
    /\ \E html \in HtmlBodies :
         fcall' = [fn |-> "parse", html |-> html, out |-> parse(html)]
    /\ UNCHANGED << workerVars, wireVars, limVars, scrapeVars >>

\* downloader/confluence.py: ConfluenceDownloader.__call__ on one task
Fetch ==
    /\ GenIdle
    /\ \E t \in FetchTasks : \E seed \in HashSeeds :
         fcall' = [fn |-> "downloader", task |-> t, seed |-> seed,
                   out |-> downloader(t, seed)]
    /\ UNCHANGED << workerVars, wireVars, limVars, scrapeVars >>

\* a mutator of the generation chain: the persistence, which hands its value
\* on, or one that returns drop
GenerationMutators == {"persistence", "drop"}

GenerationChains == UNION { [1..n -> GenerationMutators] : n \in 1..MaxChain }

\* what the generator hands the worker
SomeGenerations ==
    { Generation(<< QA(q, "a1", << "c1" >>) >>, << Doc("A", 3, language) >>, language) :
        q \in {"q1", "q2"}, language \in {"en", "de"} }

\* worker.py: the loop over generation_mutators (lines 57-60, 69-72): the
\* value left by the chain, None from the first mutator that drops on, and
\* the rows written on the way
RECURSIVE generation_mutators(_, _, _)
generation_mutators(gen, chain, rows) ==
    IF chain = << >> THEN [gen |-> gen, rows |-> rows]
    ELSE IF Head(chain) = "drop" THEN [gen |-> None, rows |-> rows]
    ELSE generation_mutators(gen, Tail(chain),
                             Append(rows, from_generation(gen)))

\* worker.py: WorkerUsecase.process, lines 54-62, for what generate gave
process(gen, chain) ==
    IF gen = None THEN [yielded |-> << >>, rows |-> << >>, raised |-> FALSE]
    ELSE LET r == generation_mutators(gen, chain, << >>) IN
         IF r.gen = None
         THEN [yielded |-> << >>, rows |-> r.rows, raised |-> FALSE]
         ELSE [yielded |-> << r.gen >>, rows |-> r.rows, raised |-> FALSE]

\* worker.py: WorkerUsecase.process_batch, lines 68-75, over what
\* generate_from_batch yields: after a drop the loop is left with gen = None
\* and line 74 reads gen.question_answers
RECURSIVE process_batch(_, _, _)
process_batch(gens, chain, acc) ==
    IF gens = << >> THEN acc
    ELSE LET r == generation_mutators(Head(gens), chain, acc.rows) IN
         IF r.gen = None
         THEN [yielded |-> acc.yielded, rows |-> r.rows, raised |-> TRUE]
         ELSE process_batch(Tail(gens), chain,
                            [yielded |-> Append(acc.yielded, r.gen),
                             rows |-> r.rows, raised |-> FALSE])

\* process on one Generation, or on none
ProcessOne ==
    /\ GenIdle
    /\ \E gen \in SomeGenerations \cup {None}, chain \in GenerationChains :
         fcall' = [fn |-> "process", gens |-> << gen >>, chain |-> chain,
                   out |-> process(gen, chain)]
    /\ UNCHANGED << workerVars, wireVars, limVars, scrapeVars >>

\* process_batch on the Generations of a batch
ProcessMany ==
    /\ GenIdle
    /\ \E n \in 0..2 : \E gens \in [1..n -> SomeGenerations],
                          chain \in GenerationChains :
         fcall' = [fn |-> "process_batch", gens |-> gens, chain |-> chain,
                   out |-> process_batch(gens, chain,
                              [yielded |-> << >>, rows |-> << >>,
                               raised |-> FALSE])]
    /\ UNCHANGED << workerVars, wireVars, limVars, scrapeVars >>

ChainNext ==
    \/ Parse
    \/ Fetch
    \/ ProcessOne
    \/ ProcessMany

ChainSpec == ChainInit /\ [][ChainNext]_vars

(* ---------------------------------------------------------------------- *)
(* The producer's functions, each called on its own                        *)
(* ---------------------------------------------------------------------- *)
\* a timestamp field of a page: missing, the empty string, a string that is
\* no ISO date, or an ISO date (counted in days)
Absent == [kind |-> "absent", day |-> 0]
Empty == [kind |-> "empty", day |-> 0]
Garbage == [kind |-> "garbage", day |-> 0]
Iso(day) == [kind |-> "iso", day |-> day]

Instants == {10, 40, 70, 100}

FieldValues == {Absent, Empty, Garbage} \cup { Iso(d) : d \in Instants }

\* domain/models.py: ConfluencePage, with the fields the producer reads
Page(id, version, lastModified, lastUpdated, expandable, created) ==
    [id |-> id, title |-> id, links |-> [webui |-> id], version |-> version,
     lastModified |-> lastModified, lastUpdated |-> lastUpdated,
     expandable |-> expandable, created |-> created]

\* producers/confluence.py: lines 39-45, the first truthy of the five fields
last_modified(page) ==
    LET Truthy(v) == v.kind \notin {"absent", "empty"} IN
    IF Truthy(page.version) THEN page.version
    ELSE IF Truthy(page.lastModified) THEN page.lastModified
    ELSE IF Truthy(page.lastUpdated) THEN page.lastUpdated
    ELSE IF Truthy(page.expandable) THEN page.expandable
    ELSE page.created

\* variant of months_back_predicate: a page modified at the cutoff is dropped
months_back_predicate_DropAtCutoff(months_back, now, page) ==
    IF months_back <= 0 THEN TRUE
    ELSE LET lm == last_modified(page) IN
         IF lm.kind \in {"absent", "empty"} THEN TRUE
         ELSE IF lm.kind # "iso" THEN TRUE
         ELSE ~(lm.day <= now - months_back * 30)

\* producers/confluence.py: months_back_predicate, at the time `now`
months_back_predicate(months_back, now, page) ==
    IF months_back <= 0 THEN TRUE
    ELSE LET lm == last_modified(page) IN
         IF lm.kind \in {"absent", "empty"} THEN TRUE
         ELSE IF lm.kind # "iso" THEN TRUE
         ELSE ~(lm.day < now - months_back * 30)

\* producers/confluence.py: lines 104-119, the fetch_page calls made:
\* range(skip, max_pages + skip, page_batch_size) and each offset's limit
RECURSIVE requests(_, _, _, _)
requests(offset, skip, max_pages, page_batch_size) ==
    IF offset >= max_pages + skip THEN << >>
    ELSE << [offset |-> offset,
             limit |-> IF page_batch_size <= max_pages - offset
                       THEN page_batch_size ELSE max_pages - offset] >>
         \o requests(offset + page_batch_size, skip, max_pages, page_batch_size)

\* producers/confluence.py: fetch_page: the pages of the space from `offset`
\* on, at most `count` (its limit argument) of them, none for a limit that is not positive
fetch_page(space, offset, count) ==
    IF count <= 0 THEN << >>
    ELSE SubSeq(space, offset + 1,
                IF offset + count <= Len(space) THEN offset + count
                ELSE Len(space))

\* adapters/asyncio.py: flatten_lazy over the gathered batches
RECURSIVE flatten_lazy(_)
flatten_lazy(batches) ==
    IF batches = << >> THEN << >>
    ELSE Head(batches) \o flatten_lazy(Tail(batches))

\* str(uuid4()): the i-th fresh id
Uuid(i) == [kind |-> "uuid", n |-> i, day |-> 0]

\* producers/confluence.py: line 133, page.get("version", {}).get("when",
\* str(uuid4()))
idempotency_key(page, i) ==
    IF page.version.kind = "absent" THEN Uuid(i) ELSE page.version

\* config.py: GeneratorConfig, the fields the producer copies into a Task
GeneratorConfig(language, difficulty_ratio, temperature) ==
    [language |-> language, difficulty_ratio |-> difficulty_ratio,
     temperature |-> temperature]

\* config.py: GeneratorConfig.add_to_parser, the defaults of the options
DefaultGeneratorConfig == GeneratorConfig("de", "mixed", 7)

\* config.py: the choices of --generator-difficulty-ratio
DifficultyChoices == {"easy", "medium", "hard", "mixed", "balanced"}

\* producers/confluence.py: lines 126-138, the Task of the i-th page
TaskOfPage(page, i, generator_config) ==
    Task(page.title, page.id, "confluence", idempotency_key(page, i),
         [links |-> page.links], generator_config.language,
         generator_config.difficulty_ratio, generator_config.temperature)

flat_results(space, skip, max_pages, page_batch_size) ==
    LET reqs == requests(skip, skip, max_pages, page_batch_size) IN
    flatten_lazy([k \in 1..Len(reqs) |->
                    fetch_page(space, reqs[k].offset, reqs[k].limit)])

\* producers/confluence.py: ConfluenceProducer.__call__: the Tasks it yields
RECURSIVE TasksOf(_, _, _, _)
TasksOf(pages, i, months_back, now) ==
    IF i > Len(pages) THEN << >>
    ELSE (IF months_back_predicate(months_back, now, pages[i])
          THEN << TaskOfPage(pages[i], i, DefaultGeneratorConfig) >> ELSE << >>)
         \o TasksOf(pages, i + 1, months_back, now)

producer(space, skip, max_pages, page_batch_size, months_back, now) ==
    TasksOf(flat_results(space, skip, max_pages, page_batch_size), 1,
            months_back, now)

\* the pages of the wiki's space
PageSet ==
    { Page(id, v, lm, Absent, Empty, Iso(100)) :
        id \in {"p1", "p2"}, v \in {Absent, Iso(40), Iso(100)},
        lm \in {Absent, Iso(10)} }

Spaces == UNION { [1..n -> PageSet] : n \in 0..MaxSpace }

ProducerInit ==
    /\ GenIdle
    /\ WorkerIdle
    /\ WireIdle
    /\ LimIdle
    /\ ScrapeIdle

\* the list requests of one producer run
Requests ==
    /\ GenIdle
    /\ \E skip \in 0..MaxSkip, max_pages \in 0..MaxPages,
          page_batch_size \in 1..MaxPageBatch :
         fcall' = [fn |-> "requests", skip |-> skip, max_pages |-> max_pages,
                   page_batch_size |-> page_batch_size,
                   out |-> requests(skip, skip, max_pages, page_batch_size)]
    /\ UNCHANGED << workerVars, wireVars, limVars, scrapeVars >>

\* the predicate on one page
MonthsBack ==
    /\ GenIdle
    /\ \E months_back \in -1..MaxMonths, now \in {100} :
       \E v, lm, lu, ex, cr \in FieldValues :
         LET page == Page("p1", v, lm, lu, ex, cr) IN
         fcall' = [fn |-> "months_back_predicate", months_back |-> months_back,
                   now |-> now, page |-> page,
                   out |-> months_back_predicate(months_back, now, page)]
    /\ UNCHANGED << workerVars, wireVars, limVars, scrapeVars >>

\* one producer run over a space
Produce ==
    /\ GenIdle
    /\ \E space \in Spaces, skip \in 0..1, page_batch_size \in 1..MaxPageBatch,
          months_back \in {0, 1}, now \in {100} :
         LET max_pages == MaxPages IN
         fcall' = [fn |-> "producer", months_back |-> months_back, now |-> now,
                   pages |-> flat_results(space, skip, max_pages, page_batch_size),
                   out |-> producer(space, skip, max_pages, page_batch_size,
                                    months_back, now)]
    /\ UNCHANGED << workerVars, wireVars, limVars, scrapeVars >>

\* a Task made under a difficulty ratio of the command line, downloaded,
\* normalized and handed to the generator: the levels get_templates derives
LevelsOfRatio ==
    /\ GenIdle
    /\ \E ratio \in DifficultyChoices, page \in PageSet :
         LET t == TaskOfPage(page, 1, GeneratorConfig("de", ratio, 7))
             res == HTMLParser(downloader(t, 1))
             n == num_questions(res.content)
         IN \E choice \in [1..n -> {"EASY", "MEDIUM", "HARD"}],
               perm \in Permutations(1..n) :
              fcall' = [fn |-> "get_templates", ratio |-> ratio, task |-> t,
                        res |-> res,
                        out |-> Levels(res.difficulty, n, choice, perm)]
    /\ UNCHANGED << workerVars, wireVars, limVars, scrapeVars >>

ProducerNext ==
    \/ Requests
    \/ MonthsBack
    \/ Produce
    \/ LevelsOfRatio

ProducerSpec == ProducerInit /\ [][ProducerNext]_vars

(* ---------------------------------------------------------------------- *)
(* One run of the scrape use case                                          *)
(* ---------------------------------------------------------------------- *)
\* what a producer can yield: Tasks, or an empty value
StreamValues == WireTasks \cup {None}

Streams == UNION { [1..n -> StreamValues] : n \in 0..MaxStream }

ScrapeInit ==
    /\ WorkerIdle
    /\ WireIdle
    /\ GenIdle
    /\ LimIdle
    /\ spc = "init"
    /\ stream \in Streams
    /\ taken = 0
    /\ accumulator = << >>
    /\ topic = << >>
    /\ started = FALSE
    /\ flushed = FALSE
    /\ stopped = FALSE
    /\ failed = FALSE

\* kafka.py: KafkaQueueSubmitter.__aenter__, entered by run()'s `async with`
StartSubmitter ==
    /\ spc = "init"
    /\ started' = TRUE
    /\ spc' = "take"
    /\ UNCHANGED << stream, taken, accumulator, topic, flushed, stopped, failed >>
    /\ UNCHANGED << workerVars, wireVars, genVars, limVars >>

\* kafka.py: __aenter__ when producer.start() raises: the block is not
\* entered and __aexit__ does not run
StartFails ==
    /\ spc = "init"
    /\ failed' = TRUE
    /\ spc' = "done"
    /\ UNCHANGED << stream, taken, accumulator, topic, started, flushed, stopped >>
    /\ UNCHANGED << workerVars, wireVars, genVars, limVars >>

\* scraper.py: run(), lines 39-42: the next value of the producer, the end of
\* the loop on exhaustion, the break on an empty value
Take ==
    /\ spc = "take"
    /\ IF taken < Len(stream)
       THEN /\ taken' = taken + 1
            /\ spc' = IF stream[taken + 1] = None THEN "print" ELSE "send"
       ELSE /\ spc' = "print"
            /\ UNCHANGED taken
    /\ UNCHANGED << stream, accumulator, topic, started, flushed, stopped, failed >>
    /\ UNCHANGED << workerVars, wireVars, genVars, limVars >>

\* scraper.py: run(), line 39, when the producer raises
ProducerFails ==
    /\ spc = "take"
    /\ failed' = TRUE
    /\ spc' = "exit_flush"
    /\ UNCHANGED << stream, taken, accumulator, topic, started, flushed, stopped >>
    /\ UNCHANGED << workerVars, wireVars, genVars, limVars >>

\* kafka.py: KafkaQueueSubmitter.submit, line 66: producer.send
Send ==
    /\ spc = "send"
    /\ accumulator' = Append(accumulator, stream[taken])
    /\ spc' = "flush"
    /\ UNCHANGED << stream, taken, topic, started, flushed, stopped, failed >>
    /\ UNCHANGED << workerVars, wireVars, genVars, limVars >>

\* kafka.py: submit when producer.send raises
SendFails ==
    /\ spc = "send"
    /\ failed' = TRUE
    /\ spc' = "exit_flush"
    /\ UNCHANGED << stream, taken, accumulator, topic, started, flushed, stopped >>
    /\ UNCHANGED << workerVars, wireVars, genVars, limVars >>

\* variant of SubmitFlush: submit returns once the message is sent
SubmitFlush_SendOnly ==
    /\ spc = "flush"
    /\ spc' = "take"
    /\ UNCHANGED << stream, taken, accumulator, topic, started, flushed, stopped,
                    failed >>
    /\ UNCHANGED << workerVars, wireVars, genVars, limVars >>

\* kafka.py: submit, line 68: producer.flush()
SubmitFlush ==
    /\ spc = "flush"
    /\ topic' = topic \o accumulator
    /\ accumulator' = << >>
    /\ spc' = "take"
    /\ UNCHANGED << stream, taken, started, flushed, stopped, failed >>
    /\ UNCHANGED << workerVars, wireVars, genVars, limVars >>

\* scraper.py: run(), line 46: the closing print reads i, which is not bound
\* when the producer yielded nothing
Completed ==
    /\ spc = "print"
    /\ failed' = (taken = 0)
    /\ spc' = "exit_flush"
    /\ UNCHANGED << stream, taken, accumulator, topic, started, flushed, stopped >>
    /\ UNCHANGED << workerVars, wireVars, genVars, limVars >>

\* kafka.py: KafkaQueueSubmitter.__aexit__, line 59: producer.flush()
ExitFlush ==
    /\ spc = "exit_flush"
    /\ topic' = topic \o accumulator
    /\ accumulator' = << >>
    /\ flushed' = TRUE
    /\ spc' = "exit_stop"
    /\ UNCHANGED << stream, taken, started, stopped, failed >>
    /\ UNCHANGED << workerVars, wireVars, genVars, limVars >>

\* kafka.py: KafkaQueueSubmitter.__aexit__, line 60: producer.stop()
ExitStop ==
    /\ spc = "exit_stop"
    /\ stopped' = TRUE
    /\ spc' = "done"
    /\ UNCHANGED << stream, taken, accumulator, topic, started, flushed, failed >>
    /\ UNCHANGED << workerVars, wireVars, genVars, limVars >>

ScrapeNext ==
    \/ StartSubmitter
    \/ StartFails
    \/ Take
    \/ ProducerFails
    \/ Send
    \/ SendFails
    \/ SubmitFlush
    \/ Completed
    \/ ExitFlush
    \/ ExitStop

ScrapeSpec == ScrapeInit /\ [][ScrapeNext]_vars

(* ---------------------------------------------------------------------- *)
(* Properties                                                              *)
(* ---------------------------------------------------------------------- *)
Range(f) == { f[i] : i \in DOMAIN f }

IsGeneration(g) == g # None /\ g # Raised

Running == pc \notin {"init", "crashed", "done"}

\* the generator calls a delivery's result was passed in
CallsOf(d) == { i \in 1..Len(gencalls) : d \in Range(gencalls[i].refs) }

\* C1: acknowledge runs for a task before its result is normalized, before it
\* is persisted and before it is passed to the generator.
C1_AcknowledgeFirst ==
    /\ normalized \subseteq acked
    /\ persisted \subseteq acked
    /\ \A i \in 1..Len(gencalls) : Range(gencalls[i].refs) \subseteq acked

C1_Witness ==
    \E i \in 1..Len(gencalls) :
        \E d \in Range(gencalls[i].refs) :
            d \in acked /\ d \in normalized /\ d \in persisted

\* no acknowledge has run for the delivered offset or for a later one
Unacknowledged(d) == ~ \E a \in acked : a[2] >= d[2]

\* C2: a task handed to a worker that stopped before acknowledge ran for it or
\* for a later task is handed to the restarted worker again: the running
\* worker has received it again, or it is still ahead of its position.
C2_Redelivered ==
    Running =>
        \A d \in delivered :
            Unacknowledged(d) =>
                \/ << runs, d[2] >> \in delivered
                \/ d[2] >= position

C2_Witness ==
    \E d \in delivered :
        /\ d[1] < runs
        /\ Unacknowledged(d)
        /\ << runs, d[2] >> \in delivered

\* C3: once acknowledge has run for a task no later run of the worker receives
\* it, so a generator call can only hold the result of the run that
\* acknowledged it: what that run did not generate is lost.
C3_NoRedeliveryAfterAck ==
    \A a \in acked :
        /\ \A d \in delivered : d[2] = a[2] => d[1] <= a[1]
        /\ \A i \in 1..Len(gencalls) :
              \A d \in Range(gencalls[i].refs) : d[2] = a[2] => d = a

C3_Witness ==
    \E a \in acked :
        /\ a \notin persisted
        /\ CallsOf(a) = {}
        /\ a[1] < runs
        /\ pc = "final"
        /\ position = Len(log)

\* C4: two submitted Tasks with the same idempotency_key leave at most one
\* task_results row for their page.
C4_AtMostOneRow ==
    \A i, j \in 1..Len(log) :
        (i < j /\ log[i].idempotency_key = log[j].idempotency_key) =>
            Cardinality({ r \in 1..Len(task_results) :
                            /\ task_results[r].url = log[i].url
                            /\ task_results[r].title = log[i].title }) <= 1

\* C5: with the generator enabled, no surviving result is passed to the
\* generator twice, the call is generate when batch_size <= 1 and
\* generate_from_batch otherwise, and when run() has ended after the end of the
\* stream every result that survived in that run was passed exactly once.
C5_PassedExactlyOnce ==
    enabled =>
        /\ \A d \in survived :
              /\ Cardinality(CallsOf(d)) <= 1
              /\ \A i \in CallsOf(d) :
                    /\ gencalls[i].kind = (IF batch_size <= 1 THEN "generate"
                                           ELSE "generate_from_batch")
                    /\ Cardinality({ k \in 1..Len(gencalls[i].refs) :
                                       gencalls[i].refs[k] = d }) = 1
        /\ pc = "done" =>
              \A d \in survived : d[1] = runs => Cardinality(CallsOf(d)) = 1

C5_Witness ==
    /\ enabled
    /\ pc = "done"
    /\ batch_size > 1
    /\ \E i \in 1..Len(gencalls) :
          /\ gencalls[i].final
          /\ gencalls[i].run = runs
          /\ Len(gencalls[i].refs) < batch_size
          /\ Range(gencalls[i].refs) \subseteq survived

\* the deliveries are of one run, in the order the tasks were consumed
ConsumptionOrder(refs) ==
    \A k \in 1..(Len(refs) - 1) :
        refs[k][1] = refs[k + 1][1] /\ refs[k][2] < refs[k + 1][2]

\* C6: with batch_size B > 1 the buffer never holds more than B results, a
\* task is consumed only with fewer than B buffered, generate_from_batch is
\* called in the loop only with exactly the B buffered results in consumption
\* order, and the buffer is empty when the loop goes on after that call.
C6_BatchBuffer ==
    /\ [](batch_size > 1 =>
            /\ Len(results) <= batch_size
            /\ pc \in {"consume", "download", "mutate", "append"} =>
                  Len(results) < batch_size
            /\ \A i \in 1..Len(gencalls) :
                  ~gencalls[i].final =>
                      /\ Len(gencalls[i].refs) = batch_size
                      /\ ConsumptionOrder(gencalls[i].refs))
    /\ [][batch_size > 1 =>
            /\ (pc = "process_batch" /\ pc' = "batch_group" /\ ~infinal) =>
                  /\ Len(results) = batch_size
                  /\ Len(gencalls') = Len(gencalls) + 1
                  /\ gencalls'[Len(gencalls')].refs = bufD
                  /\ pending' = grouped(results)
            /\ (pc \in {"process_batch", "batch_group"} /\ pc' = "consume") =>
                  results' = << >>]_vars

C6_Witness ==
    /\ batch_size > 1
    /\ pc = "consume"
    /\ results = << >>
    /\ \E i \in 1..Len(gencalls) :
          /\ ~gencalls[i].final
          /\ gencalls[i].run = runs
          /\ Len(gencalls[i].refs) = batch_size

\* C7: with batch_size <= 1 generate returns for every surviving result, its
\* Generation is persisted and yielded, and the buffer is empty whenever a task
\* is taken.
C7_SingleItemGenerated ==
    (batch_size <= 1 /\ enabled) =>
        /\ \A i \in 1..Len(gencalls) :
              /\ gencalls[i].outcome # "raised"
              /\ gencalls[i].outcome = "generation" =>
                    \E y \in 1..Len(yielded) :
                        yielded[y].references[1].url = log[gencalls[i].refs[1][2] + 1].url
        /\ pc = "download" => results = << >>

\* C8: with the generator disabled there is no generator call, no Generation
\* is yielded and no generations row is written, while every task of the run
\* whose download gave a TaskResult is acknowledged, normalized and persisted
\* as one task_results row once the download chain has run for it.
C8_DisabledStillPersists ==
    ~enabled =>
        /\ gencalls = << >>
        /\ generations = << >>
        /\ yielded = << >>
        /\ Len(task_results) = Cardinality(persisted)
        /\ Running =>
              \A d \in delivered :
                  ( /\ d[1] = runs
                    /\ downloader(log[d[2] + 1], hashseed) # None
                    /\ ~(pc \in {"download", "mutate"} /\ curD = d) ) =>
                      /\ d \in acked
                      /\ d \in normalized
                      /\ d \in persisted

C8_Witness ==
    /\ ~enabled
    /\ pc = "done"
    /\ Len(task_results) >= 2
    /\ \E d \in survived : d[1] = runs

\* C9: every QA of a Generation handed out by the generator has a non-empty
\* chunks list.
C9_ChunksNonEmpty ==
    \A y \in 1..Len(yielded) :
        \A k \in 1..Len(yielded[y].question_answers) :
            yielded[y].question_answers[k].chunks # << >>

\* C10: whatever question requests fail, generate raises nothing: it returns
\* none when no question request succeeded and goes on to the answer phase,
\* returning a Generation, when at least one did.
C10_QuestionFailureTolerated ==
    (pc = "process" /\ enabled) =>
        \A n \in 1..MaxQuestions :
            \A qs_raw \in [1..n -> QuestionResponses],
               answers_raw \in [1..n -> AnswerResponses] :
                LET gen == generate_body(result, qs_raw, answers_raw) IN
                /\ gen # Raised
                /\ Questions(qs_raw) = << >> => gen = None
                /\ Questions(qs_raw) # << >> => gen # None

\* C11: in generate the i-th successful question is paired with the result of
\* the i-th answer request, and every question whose answer request succeeded
\* yields its own QA, in question order, also when two questions have the
\* same text.
C11_PairedByPosition ==
    (fcall.fn = "generate_body" /\ IsGeneration(fcall.out)) =>
        LET qs == Questions(fcall.qs_raw) IN
        fcall.out.question_answers =
            PairsToQAs(Zip(qs, SubSeq(fcall.answers_raw, 1, Len(qs))))

\* the languages of a batch, the results of one language in input order, and
\* the yielded Generations of one language
LanguagesOf(rs) == { rs[i].language : i \in 1..Len(rs) }
OfLanguage(rs, l) == SelectSeq(rs, LAMBDA r : r.language = l)
YieldedFor(gens, l) == { i \in 1..Len(gens) : gens[i].language = l }

\* C12 as stated: generate_from_batch yields exactly one Generation per
\* distinct language of its input; its references are the input results of
\* that language in input order.
C12_OnePerLanguage ==
    fcall.fn = "generate_from_batch" =>
        /\ \A l \in LanguagesOf(fcall.task_results) :
               Cardinality(YieldedFor(fcall.out, l)) = 1
        /\ \A i \in 1..Len(fcall.out) :
               fcall.out[i].references =
                   OfLanguage(fcall.task_results, fcall.out[i].language)

\* C12 amended: generate_from_batch yields exactly one Generation for each
\* language whose question request succeeded and none for a language whose
\* question request failed; a yielded Generation's references are the input
\* results of its language in input order, so every input TaskResult is
\* referenced by at most one yielded Generation.
C12_OnePerAnsweredLanguage ==
    fcall.fn = "generate_from_batch" =>
        LET groups == grouped(fcall.task_results) IN
        /\ \A k \in 1..Len(groups) :
               Cardinality(YieldedFor(fcall.out, groups[k].language)) =
                   IF fcall.qs[k].kind = "question" THEN 1 ELSE 0
        /\ \A i \in 1..Len(fcall.out) :
               /\ fcall.out[i].language \in LanguagesOf(fcall.task_results)
               /\ fcall.out[i].references =
                      OfLanguage(fcall.task_results, fcall.out[i].language)
        /\ \A j \in 1..Len(fcall.task_results) :
               Cardinality({ i \in 1..Len(fcall.out) :
                   \E n \in 1..Len(fcall.out[i].references) :
                       fcall.out[i].references[n] = fcall.task_results[j] }) <= 1

\* a batch of two results of one language and one of another, each group's
\* question answered: two Generations
C12_Witness ==
    /\ fcall.fn = "generate_from_batch"
    /\ Len(fcall.task_results) = MaxBatch
    /\ Cardinality(LanguagesOf(fcall.task_results)) = 2
    /\ Len(fcall.out) = 2
    /\ \E i \in 1..Len(fcall.out) : Len(fcall.out[i].references) >= 1

SameSettings(r, t) ==
    /\ r.language = t.language
    /\ r.difficulty = t.difficulty
    /\ r.temperature = t.temperature

\* C13: the TaskResult of a task keeps the task's language, difficulty and
\* temperature through the download chain and into the buffer, and a
\* Generation's language is the language of each TaskResult it references.
C13_SettingsCarried ==
    /\ (pc \in {"mutate", "append"}) => SameSettings(result, task)
    /\ \A i \in 1..Len(results) : SameSettings(results[i], log[bufD[i][2] + 1])
    /\ \A i \in 1..Len(yielded) : \A n \in 1..Len(yielded[i].references) :
           yielded[i].references[n].language = yielded[i].language
    /\ (pc = "process" /\ enabled) =>
           \A n \in 1..MaxQuestions :
             \A qs_raw \in [1..n -> QuestionResponses],
                answers_raw \in [1..n -> AnswerResponses] :
                LET gen == generate_body(result, qs_raw, answers_raw) IN
                IsGeneration(gen) =>
                    gen.language = result.language /\ gen.references = << result >>

\* a Generation was yielded for the German task while the result of an
\* English task with its own difficulty and temperature waits in the buffer
C13_Witness ==
    /\ \E i \in 1..Len(yielded) : \E n \in 1..Len(yielded[i].references) :
          /\ yielded[i].language = "de"
          /\ yielded[i].references[n].temperature = 7
    /\ \E i \in 1..Len(results) :
          /\ results[i].language = "en"
          /\ results[i].difficulty = "EASY"
          /\ results[i].temperature = 2

\* C14: every Generation the worker yields has language "de" or "en",
\* whatever Task the consumer deserialized from the topic.
C14_LanguageKnown ==
    \A i \in 1..Len(wyield) : wyield[i].language \in {"de", "en"}

Deserialized == wpc \notin {"idle", "sent"}
MemberNames(obj) == { m[1] : m \in obj.o }

\* C19: a Task serialized by the submitter and deserialized by the consumer
\* is equal to the submitted Task in every field, and the key of the message
\* is the Task's idempotency_key.
C19_RoundTrip ==
    (Deserialized /\ sent # None) =>
        /\ received # TypeError
        /\ \A f \in TaskFields : received[f] = sent[f]
        /\ received = sent
        /\ decode(wire.key) = sent.idempotency_key

\* a submitted task with settings other than the defaults was received
C19_Witness ==
    /\ wpc = "received"
    /\ sent # None
    /\ sent.temperature # DefaultTemperature
    /\ sent.language # DefaultLanguage
    /\ sent.difficulty # DefaultDifficulty

\* C20: a message with all Task fields and an unknown additional field is
\* deserialized to the Task; a message lacking a required field is rejected
\* with an error.
C20_AdditiveAcceptedMissingRejected ==
    Deserialized =>
        LET names == MemberNames(wire.value) IN
        /\ (TaskFields \subseteq names /\ names # TaskFields) =>
              /\ received # TypeError
              /\ \A f \in TaskFields : received[f] = loads(wire.value)[f]
        /\ ~(RequiredFields \subseteq names) => received = TypeError

\* C15 as stated: num_questions is 1 plus the number of thresholds among
\* 500, 1000, 2000, 4000 that the word count strictly exceeds; documents of
\* exactly 500, 1000, 2000, 4000 words get 1, 2, 3, 4 questions.
C15_StrictThresholds ==
    fcall.fn = "num_questions" =>
        /\ fcall.out =
              1 + Cardinality({ t \in {500, 1000, 2000, 4000} : fcall.words > t })
        /\ (fcall.words = 500) => fcall.out = 1
        /\ (fcall.words = 1000) => fcall.out = 2
        /\ (fcall.words = 2000) => fcall.out = 3
        /\ (fcall.words = 4000) => fcall.out = 4

\* C15 amended: num_questions is 1 plus the number of thresholds among 500,
\* 1000, 2000, 4000 that the word count reaches or exceeds; documents of
\* exactly 500, 1000, 2000, 4000 words get 2, 3, 4, 5 questions and
\* documents of one word less get 1, 2, 3, 4.
C15_ReachedThresholds ==
    fcall.fn = "num_questions" =>
        /\ fcall.out =
              1 + Cardinality({ t \in {500, 1000, 2000, 4000} : fcall.words >= t })
        /\ (fcall.words = 500) => fcall.out = 2
        /\ (fcall.words = 1000) => fcall.out = 3
        /\ (fcall.words = 2000) => fcall.out = 4
        /\ (fcall.words = 4000) => fcall.out = 5
        /\ (fcall.words = 499) => fcall.out = 1
        /\ (fcall.words = 999) => fcall.out = 2
        /\ (fcall.words = 1999) => fcall.out = 3
        /\ (fcall.words = 3999) => fcall.out = 4

\* a document of exactly 4000 words was counted
C15_Witness ==
    /\ fcall.fn = "num_questions"
    /\ fcall.words = 4000
    /\ fcall.out = 5

CountOf(level, dist) == Cardinality({ i \in 1..Len(dist) : dist[i] = level })

\* C16: balanced_distribution(n) returns exactly n levels out of EASY, MEDIUM,
\* HARD for every n >= 0, and for n >= 3 the numbers of EASY, MEDIUM and HARD
\* entries differ pairwise by at most one, whatever the shuffle.
C16_Balanced ==
    fcall.fn = "balanced_difficulty_distribution" =>
        /\ Len(fcall.out) = fcall.k
        /\ \A i \in 1..Len(fcall.out) : fcall.out[i] \in {"EASY", "MEDIUM", "HARD"}
        /\ fcall.k >= 3 =>
              \A a, b \in {"EASY", "MEDIUM", "HARD"} :
                 CountOf(a, fcall.out) - CountOf(b, fcall.out) <= 1

\* five levels, shuffled: a HARD first and an EASY last
C16_Witness ==
    /\ fcall.fn = "balanced_difficulty_distribution"
    /\ fcall.k = 5
    /\ fcall.out[1] = "HARD"
    /\ fcall.out[5] = "EASY"

\* C17: during run_limited with limit N >= 1 never more than N operations
\* execute; an operation starts only by taking one of the N permits and gives
\* it back when it returns or raises.
C17_AtMostLimitRunning ==
    /\ [](/\ Cardinality(HoldingPermit) <= limit
          /\ permits = limit - Cardinality(HoldingPermit)
          /\ permits >= 0)
    /\ [][\A i \in 1..Len(coros) :
            /\ (coros[i] # "running" /\ coros'[i] = "running") =>
                   (permits > 0 /\ permits' = permits - 1)
            /\ (coros[i] = "running" /\ coros'[i] # "running") =>
                   (coros'[i] \in {"returned", "raised"} /\ permits' = permits + 1)
            /\ (coros[i] # "running" /\ coros'[i] \in {"returned", "raised"}) =>
                   coros'[i] = coros[i]]_vars

\* more operations than permits: all permits taken, one operation waiting,
\* another one through
C17_Witness ==
    /\ Len(coros) > limit
    /\ limit >= 1
    /\ permits = 0
    /\ Waiting # {}
    /\ completed # << >>

\* C18: run_limited returns one result per operation, at the operation's
\* position, whatever the order of completion; with return_exceptions a
\* failed operation's exception is the value at its position and all other
\* operations have run to completion.
C18_ResultsByPosition ==
    /\ gathered.kind = "list" =>
          /\ Len(gathered.values) = Len(coros)
          /\ Done(coros)
          /\ \A i \in 1..Len(coros) :
                gathered.values[i] =
                    IF coros[i] = "returned" THEN ResultOf(i) ELSE ExceptionOf(i)
          /\ ~return_exceptions => \A i \in 1..Len(coros) : coros[i] = "returned"
    /\ return_exceptions => gathered.kind # "raised"

\* an operation other than the first completed first and failed, the others
\* went on, and the list came back
C18_Witness ==
    /\ gathered.kind = "list"
    /\ return_exceptions
    /\ Len(coros) = MaxOps
    /\ completed[1] # 1
    /\ coros[completed[1]] = "raised"
    /\ coros[1] = "returned"

\* C21: strhash gives the same fingerprint for the same input on every call,
\* calls made in different runs of the program included: two rows of one page
\* (whose raw body is the same at every download) carry the same hash.
C21_SameFingerprintAcrossRuns ==
    \A i, j \in 1..Len(task_results) :
        task_results[i].url = task_results[j].url =>
            task_results[i].hash = task_results[j].hash

\* C22: the HTML normalizer gives back a TaskResult that differs from its
\* input in content only: title, url, status_code, headers, hash, language,
\* difficulty and temperature are the input's, and hash is still the
\* fingerprint of the raw body.
C22_OnlyContentReplaced ==
    [][normalized' # normalized =>
          /\ \A f \in {"title", "url", "status_code", "headers", "hash",
                       "language", "difficulty", "temperature"} :
                result'[f] = result[f]
          /\ result'.content = parse(result.content)
          /\ result'.hash = strhash(result.content, hashseed)]_vars

\* the normalizer has replaced the raw body of the running task by its text
C22_Witness ==
    /\ pc = "mutate"
    /\ mutators[mi] = "persistence"
    /\ curD \in normalized
    /\ result.content # Remote(result.url).body
    /\ result.hash = strhash(Remote(result.url).body, hashseed)

RECURSIVE Concat(_)
Concat(seqs) ==
    IF seqs = << >> THEN << >> ELSE Head(seqs) \o Concat(Tail(seqs))

Contains(s, sub) ==
    \E k \in 0..(Len(s) - Len(sub)) : SubSeq(s, k + 1, k + Len(sub)) = sub

\* the flattened text of one item: its own words, then those of the lists
\* nested in it, taken as they stand or normalized in their turn
ItemText(li, normal) ==
    li.text \o (IF normal THEN parse(li.lists) ELSE NodesText(li.lists))

\* "1. t1 2. t2 ... k. tk" over the own items of an ordered list
OwnNumbered(list, normal) ==
    Concat([i \in 1..Len(list.items) |->
              << ToString(i) \o "." >> \o ItemText(list.items[i], normal)])

OwnBulleted(list, normal) ==
    Concat([i \in 1..Len(list.items) |->
              << "*" >> \o ItemText(list.items[i], normal)])

\* C23: the text of a body contains, for each of its ordered lists, the
\* list's own items numbered from 1 in document order, and for each of its
\* unordered lists the list's own items, each once behind a bullet mark, in
\* document order
C23_ListsNumberedOverOwnItems ==
    fcall.fn = "parse" =>
        \A i \in 1..Len(fcall.html) :
            LET n == fcall.html[i] IN
            /\ n.tag = "ol" =>
                 \E normal \in BOOLEAN : Contains(fcall.out, OwnNumbered(n, normal))
            /\ n.tag = "ul" =>
                 \E normal \in BOOLEAN : Contains(fcall.out, OwnBulleted(n, normal))

\* the deliveries of tasks whose page fetch is answered with a failure
NotOkDeliveries(ds) == { d \in ds : ~Remote(log[d[2] + 1].url).ok }

\* C24: a task of the downloader's own tag whose fetch is answered with a
\* non-2xx response leaves the downloader as a TaskResult with that status
\* code and the response body; once its download chain is through, the task
\* is acknowledged and persisted, and task_results holds one row with the
\* failure's status code for each such delivery persisted
C24_FailureRecorded ==
    /\ [][(/\ pc = "download"
           /\ pc' \in {"consume", "mutate"}
           /\ task.downloader = "confluence"
           /\ ~Remote(task.url).ok) =>
             (/\ pc' = "mutate"
              /\ result' # None
              /\ result'.status_code = Remote(task.url).status_code
              /\ result'.content = Remote(task.url).body)]_vars
    /\ []((pc = "append" /\ ~Remote(task.url).ok) =>
             (/\ curD \in acked
              /\ curD \in persisted
              /\ result.status_code = Remote(task.url).status_code))
    /\ [](Cardinality({ i \in 1..Len(task_results) :
                          task_results[i].status_code \notin 200..299 })
            = Cardinality(NotOkDeliveries(persisted)))

C24_Witness ==
    /\ pc = "append"
    /\ task.url = "p3"
    /\ curD \in acked
    /\ \E i \in 1..Len(task_results) :
          /\ task_results[i].status_code = 404
          /\ task_results[i].url = "p3"

\* C25: a page that is fetched with an empty body, or without the body
\* structure, is dropped by the downloader
C25_EmptyBodyDropped ==
    (/\ fcall.fn = "downloader"
     /\ fcall.task.downloader = "confluence"
     /\ Remote(fcall.task.url).ok
     /\ \/ ~Remote(fcall.task.url).page
        \/ ~Remote(fcall.task.url).view
        \/ Remote(fcall.task.url).body = << >>) =>
        fcall.out = None

\* the task of a delivery
TaskOf(d) == log[d[2] + 1]

\* C26: no page is fetched for a task whose downloader tag is not the
\* downloader's own; a delivery the downloader drops is never acknowledged,
\* normalized, persisted, buffered or passed to the generator, and the worker
\* goes on to take the next task
C26_DroppedUntouched ==
    /\ [](\A d \in delivered :
            TaskOf(d).downloader # "confluence" => d \notin fetched)
    /\ [](\A d \in delivered : \A seed \in HashSeeds :
            downloader(TaskOf(d), seed) = None =>
                /\ d \notin acked \cup normalized \cup persisted \cup survived
                /\ \A i \in 1..Len(gencalls) : d \notin Range(gencalls[i].refs))
    /\ [][(/\ pc = "download"
           /\ pc' \in {"consume", "mutate"}
           /\ downloader(task, hashseed) = None) =>
             (/\ pc' = "consume"
              /\ result' = None
              /\ UNCHANGED << committed, position, store, results >>)]_vars

C26_Witness ==
    /\ pc = "download"
    /\ curD[2] >= 1
    /\ << runs, curD[2] - 1 >> \in delivered
    /\ TaskOf(<< runs, curD[2] - 1 >>).downloader = "other"
    /\ << runs, curD[2] - 1 >> \notin fetched \cup acked
    /\ committed < curD[2]

RECURSIVE SumLimits(_)
SumLimits(reqs) ==
    IF reqs = << >> THEN 0 ELSE Head(reqs).limit + SumLimits(Tail(reqs))

\* C27: the list requests start at skip, skip + page_batch_size, ... below
\* skip + max_pages; every limit lies between 1 and page_batch_size and the
\* limits sum to max_pages
C27_WindowsCoverRange ==
    fcall.fn = "requests" =>
        /\ \A k \in 1..Len(fcall.out) :
              /\ fcall.out[k].offset = fcall.skip + (k - 1) * fcall.page_batch_size
              /\ fcall.out[k].offset < fcall.skip + fcall.max_pages
              /\ fcall.out[k].limit \in 1..fcall.page_batch_size
        /\ SumLimits(fcall.out) = fcall.max_pages

\* the timestamp fields of a page in the order they are looked at; a field
\* is present when it is there and not empty
TimestampsOf(page) ==
    << page.version, page.lastModified, page.lastUpdated, page.expandable,
       page.created >>

Present(v) == v.kind \notin {"absent", "empty"}

\* the page is to be emitted: no filter, or no timestamp present, or the
\* first present one is no date, or it is not earlier than the cutoff
Recent(months_back, now, page) ==
    \/ months_back <= 0
    \/ \A k \in 1..5 : ~Present(TimestampsOf(page)[k])
    \/ \E k \in 1..5 :
          /\ Present(TimestampsOf(page)[k])
          /\ \A j \in 1..(k - 1) : ~Present(TimestampsOf(page)[j])
          /\ \/ TimestampsOf(page)[k].kind # "iso"
             \/ TimestampsOf(page)[k].day >= now - 30 * months_back

\* C28: the predicate keeps a page exactly when months_back <= 0, or no
\* timestamp is present or parseable, or the first present timestamp is not
\* earlier than now minus months_back x 30 days; the producer emits the Tasks
\* of exactly the pages kept, in their order
C28_RecentPagesEmitted ==
    /\ fcall.fn = "months_back_predicate" =>
          (fcall.out <=> Recent(fcall.months_back, fcall.now, fcall.page))
    /\ fcall.fn = "producer" =>
          LET kept == SelectSeq(fcall.pages,
                         LAMBDA page : Recent(fcall.months_back, fcall.now, page))
          IN /\ Len(fcall.out) = Len(kept)
             /\ \A i \in 1..Len(kept) : fcall.out[i].url = kept[i].id

C28_Witness ==
    /\ fcall.fn = "producer"
    /\ fcall.months_back > 0
    /\ Len(fcall.pages) = 2
    /\ Len(fcall.out) = 1
    /\ fcall.out[1].url = fcall.pages[2].id
    /\ fcall.pages[1].version = Iso(40)
    /\ fcall.pages[2].version = Iso(100)

\* C29: two Tasks of one producer run with the same idempotency_key have the
\* same url: different pages never share a key
C29_KeyIdentifiesPage ==
    fcall.fn = "producer" =>
        \A i, j \in 1..Len(fcall.out) :
            fcall.out[i].idempotency_key = fcall.out[j].idempotency_key =>
                fcall.out[i].url = fcall.out[j].url

\* the Tasks among the first n values of the stream
Submittable(n) == SelectSeq(SubSeq(stream, 1, n), LAMBDA v : v # None)

\* C30: the scraper sends the producer's tasks in stream order; when it
\* takes the next value every task taken before is on the topic and nothing
\* waits in the Kafka producer; no value behind the first empty one is taken;
\* and once run() is left after the submitter was entered, whether by
\* exhaustion, an empty value or a failure, the Kafka producer has been
\* flushed and stopped and nothing waits in it
C30_SubmitInOrderAndClose ==
    /\ [](topic \o accumulator \in { Submittable(n) : n \in 0..taken })
    /\ [](\A k \in 1..(taken - 1) : stream[k] # None)
    /\ [][taken' # taken =>
            (/\ accumulator = << >>
             /\ topic = SubSeq(stream, 1, taken))]_vars
    /\ []((spc = "done" /\ started) =>
            (/\ flushed
             /\ stopped
             /\ accumulator = << >>
             /\ ~failed => topic = Submittable(taken)))

C30_Witness ==
    /\ spc = "done"
    /\ Len(stream) = 3
    /\ stream[3] = None
    /\ topic = SubSeq(stream, 1, 2)
    /\ topic[1] # topic[2]
    /\ taken = 3
    /\ flushed
    /\ stopped
    /\ ~failed

\* C31: a step that writes to a table appends exactly one row, the row of the
\* value handed to persist, and hands that value on unchanged (the
\* TaskResult stays the chain's result, the Generation is what run() yields);
\* the rows written before stay as they are, so no table ever shrinks
C31_AppendOnly ==
    [][/\ Len(task_results') >= Len(task_results)
       /\ SubSeq(task_results', 1, Len(task_results)) = task_results
       /\ Len(generations') >= Len(generations)
       /\ SubSeq(generations', 1, Len(generations)) = generations
       /\ task_results' # task_results =>
             /\ task_results' = Append(task_results, from_result(result))
             /\ result' = result
       /\ generations' # generations =>
             /\ Len(generations') = Len(generations) + 1
             /\ Len(yielded') = Len(yielded) + 1
             /\ generations'[Len(generations')]
                  = from_generation(yielded'[Len(yielded')])
       /\ (/\ pc = "mutate"
           /\ mutators[mi] = "persistence"
           /\ << pc, mi >>' # << pc, mi >>
           /\ pc' # "crashed") =>
             Len(task_results') = Len(task_results) + 1]_vars

C31_Witness ==
    /\ Len(task_results) = 2
    /\ task_results[1].url = task_results[2].url
    /\ Len(generations) >= 1

\* C32: generate makes num_questions(content) question requests, one for
\* each derived level, and for a document of difficulty EASY, MEDIUM or HARD
\* every level is that difficulty
C32_OneRequestPerLevel ==
    fcall.fn = "generate" =>
        LET n == num_questions(fcall.res.content) IN
        /\ Len(fcall.out.requests) = n
        /\ Len(fcall.out.levels) = n
        /\ fcall.res.difficulty \in {"EASY", "MEDIUM", "HARD"} =>
              \A i \in 1..n : fcall.out.levels[i] = fcall.res.difficulty

\* C33: the short-form templates of generate are read from prompts that
\* exist, for documents in de and in en, so generate gets to its question
\* requests
C33_ShortTemplatesExist ==
    (fcall.fn = "generate" /\ fcall.res.language \in {"de", "en"}) =>
        /\ Range(Templates(TRUE)) \subseteq PromptNames
        /\ ~fcall.out.raised

\* C34: generate reads the short templates when is_short is true and the
\* long ones when it is false
C34_ShortOrLongTemplates ==
    fcall.fn = "generate" =>
        fcall.out.read =
            IF fcall.is_short
            THEN {"EASY_PROMPT", "MEDIUM_PROMPT", "HARD_PROMPT", "MIXED_PROMPT"}
            ELSE {"LONG_EASY_PROMPT", "LONG_MEDIUM_PROMPT", "LONG_HARD_PROMPT",
                  "LONG_MIXED_PROMPT"}

\* the difficulty a ratio of the command line stands for
DifficultyOf(ratio) ==
    CASE ratio = "easy" -> "EASY"
      [] ratio = "medium" -> "MEDIUM"
      [] ratio = "hard" -> "HARD"
      [] ratio = "mixed" -> "MIXED"
      [] ratio = "balanced" -> "BALANCED"

\* C35: the levels derived for a Task made under a difficulty ratio of the
\* command line are levels the distribution of the corresponding difficulty
\* can give
C35_RatioSelectsDistribution ==
    fcall.fn = "get_templates" =>
        LET n == Len(fcall.out) IN
        \E choice \in [1..n -> {"EASY", "MEDIUM", "HARD"}],
           perm \in Permutations(1..n) :
            fcall.out = Levels(DifficultyOf(fcall.ratio), n, choice, perm)

\* C36: when a mutator of the generation chain returns drop, process and
\* process_batch yield nothing for the Generation and raise nothing
C36_DroppedGenerationSkipped ==
    (/\ fcall.fn \in {"process", "process_batch"}
     /\ \E k \in 1..Len(fcall.chain) : fcall.chain[k] = "drop") =>
        /\ fcall.out.yielded = << >>
        /\ ~fcall.out.raised

\* C37: when the producer ends without having yielded anything and without
\* raising, run() ends normally: the step behind the loop raises nothing, and
\* at the end nothing was submitted and the submitter is flushed and stopped
C37_EmptyProducerEndsNormally ==
    /\ [][(spc = "print" /\ stream = << >>) => ~failed']_vars
    /\ []((spc = "done" /\ started /\ stream = << >>) =>
            (/\ topic = << >>
             /\ accumulator = << >>
             /\ flushed
             /\ stopped))

\* C38: every Generation the worker has yielded, and every row it has written
\* for one, holds at least one QA
C38_NoEmptyGeneration ==
    /\ \A k \in 1..Len(yielded) : yielded[k].question_answers # << >>
    /\ \A k \in 1..Len(generations) :
          generations[k].question_answers # << >>

\* a delivery whose task the downloader drops
Dropped(d) == downloader(TaskOf(d), hashseed) = None

\* C39: a delivery the downloader drops is never acknowledged; its offset
\* becomes committed only by the acknowledge of a later task that the same
\* run of the worker consumed behind it; a restart resumes at the committed
\* offset, and a later run that got past a dropped task whose offset is not
\* committed was handed that task again
C39_DroppedCommittedByLaterAck ==
    /\ [](\A d \in delivered : Dropped(d) => d \notin acked)
    /\ [][\A d \in delivered :
            (Dropped(d) /\ committed <= d[2] /\ committed' > d[2]) =>
                (/\ pc = "mutate"
                 /\ mutators[mi] = "acknowledge"
                 /\ ~Dropped(curD)
                 /\ curD[2] > d[2]
                 /\ << curD[1], d[2] >> \in delivered
                 /\ curD \in acked'
                 /\ committed' = curD[2] + 1)]_vars
    /\ [][runs' # runs => position' = committed]_vars
    /\ [](\A d \in delivered : \A e \in delivered :
            (Dropped(d) /\ committed <= d[2] /\ e[1] > d[1] /\ e[2] > d[2]) =>
                << e[1], d[2] >> \in delivered)

C39_Witness ==
    /\ << 1, 0 >> \in delivered
    /\ Dropped(<< 1, 0 >>)
    /\ << 2, 0 >> \in delivered
    /\ << 2, 1 >> \in acked
    /\ << 1, 1 >> \notin delivered
    /\ committed = 2

\* C40: once run_limited is called, eventually it has returned (its list, or
\* the first exception when return_exceptions is off), every operation has
\* run to its end exactly once and all permits are back; an operation that
\* waits for a permit eventually gets one
C40_RunLimitedReturns ==
    /\ (gathered.kind = "pending") ~>
          (/\ gathered.kind \in {"list", "raised"}
           /\ Done(coros)
           /\ Len(completed) = Len(coros)
           /\ Range(completed) = 1..Len(coros)
           /\ permits = limit)
    /\ \A i \in 1..MaxOps :
          (i \in Waiting) ~> (i \in HoldingPermit)

\* one permit, the first operation failed, the ones that waited behind it ran
C40_Witness ==
    /\ gathered.kind = "list"
    /\ limit = 1
    /\ Len(coros) = MaxOps
    /\ coros[1] = "raised"
    /\ completed[1] = 1
    /\ Done(coros)
    /\ permits = limit

====
